---- MODULE Spec2Model ----
(***************************************************************************)
(* The multi-instance monitoring coordinator of traePy: the task store     *)
(* (monitor_tasks), the MonitorService instances that share it, their      *)
(* APScheduler job stores, the per-task check cycle, the periodic recovery *)
(* sweep and the startup recovery scan.                                    *)
(*                                                                         *)
(* The repository holds two MonitorService classes: the one main.py wires  *)
(* (app/services/monitor_service.py, which delegates the check cycle to    *)
(* the app/services/monitors package) and scheduler_service.py (check     *)
(* cycle inline).  The variable build says which of the two the instances  *)
(* run; it is chosen in Init and never changes.                            *)
(*                                                                         *)
(* Time is the integer now (seconds).  Each instance is one process with   *)
(* one operation in flight at a time; instances interleave at every store  *)
(* statement.  A row lock (SELECT ... FOR UPDATE) is held by an instance   *)
(* exactly while its check cycle is between its locked read and its        *)
(* commit; a statement that would wait for the lock is disabled until the  *)
(* lock is released, and then sees the committed row.                      *)
(***************************************************************************)
EXTENDS Integers, Sequences, FiniteSets, TLC

VARIABLES
    build,      \* which MonitorService the instances run
    requests,   \* the start requests the clients of this run send
    now,        \* datetime.utcnow(), in seconds
    clock,      \* the later instants at which the system is observed
    tasks,      \* the monitor_tasks table: task_id -> row (task_id = index)
    inst,       \* instance -> "new" | "up" | "down"
    jobs,       \* instance -> set of scheduler job ids <<prefix, task_id>>
    proc,       \* instance -> its operation in flight
    reply,      \* what the call that ended in the last step returned,
                \* in the runs that observe the return values
    reclaims,   \* task_id -> how often a recovery took the task over
    scan_tasks, \* the scan_tasks table: id -> row (id = index)
    scan_proc,  \* scan task id -> the call or background task working on it
    sent,       \* the task updates handed to the WebSocket manager, in order
    walk,       \* a client paging through its scan tasks: the pages so far
    manager,    \* the ConnectionManager: its two maps
    sockets,    \* connection id -> the websocket_endpoint call that drew it
    sending     \* the send_personal_message call in flight, if any

monitor_vars == <<build, requests, now, clock, tasks, inst, jobs, proc, reclaims>>
ws_vars == <<manager, sockets, sending>>
scan_vars == <<scan_tasks, scan_proc, sent, walk, manager, sockets, sending>>

vars == <<build, requests, now, clock, tasks, inst, jobs, proc, reply, reclaims,
          scan_tasks, scan_proc, sent, walk, manager, sockets, sending>>

----------------------------------------------------------------------------
(* Bounds of the model *)

NumInstances == 3
MaxLive == 2
MaxTasks == 2
MaxStartTime == 0

(* Program constants *)

heartbeat_timeout == 120
task_timeout == 1800
DefaultRetryCount == 0
DefaultMaxRetries == 3
DefaultCheckInterval == 30
SlowCheckInterval == 300

NULL == -1

Instances == 1..NumInstances
Builds == {"monitor_service", "scheduler_service"}
Active == {"pending", "running"}
Terminal == {"completed", "failed", "timeout", "stopped"}

Idle == [pc |-> "idle"]
NoReply == [op |-> "none"]
Unobserved == [op |-> "unobserved"]
NoResult == [none |-> TRUE]
NoneCond == [none |-> TRUE]
NoWalk == [pc |-> "none"]

\* ConnectionManager.__init__: both maps empty
NoConnections == [active_connections |-> <<>>, connection_user_map |-> <<>>]
NoSend == [pc |-> "none"]

----------------------------------------------------------------------------
(* MonitorService.get_monitor: the registry keyed by the lower-cased name. *)

\* str.lower() on the service names the model uses
lower(s) ==
    CASE s = "HTTP" -> "http"
      [] s = "Https" -> "https"
      [] s = "MySQL" -> "mysql"
      [] s = "DATABASE" -> "database"
      [] s = "PostgreSQL" -> "postgresql"
      [] OTHER -> s

monitors ==
    [http |-> "HttpMonitor", https |-> "HttpMonitor",
     database |-> "DatabaseMonitor", mysql |-> "DatabaseMonitor",
     postgresql |-> "DatabaseMonitor"]

\* a lookup by the name as given
get_monitor_exact(service_name) ==
    IF service_name \in DOMAIN monitors
    THEN monitors[service_name]
    ELSE monitors["http"]

get_monitor(service_name) ==
    IF lower(service_name) \in DOMAIN monitors
    THEN monitors[lower(service_name)]
    ELSE monitors["http"]

\* the class whose check cycle runs a task's job, per build
MonitorOf(b, service_name) ==
    IF b = "monitor_service" THEN get_monitor(service_name) ELSE "MonitorService"

\* the job id prefix of schedule_monitor_job / complete_monitoring
job_id(monitor, task_id) ==
    CASE monitor = "HttpMonitor" -> <<"http_monitor", task_id>>
      [] monitor = "DatabaseMonitor" -> <<"db_monitor", task_id>>
      [] OTHER -> <<"monitor", task_id>>

----------------------------------------------------------------------------
(* The condition evaluators.  A condition spec is the dict that was       *)
(* json.dumps'ed into the row (NoneCond for a NULL column); a status_code  *)
(* condition is [one |-> n] or [anyof |-> set] (isinstance(..., list)); a  *)
(* field path is the sequence of its dot-separated keys; a JSON object is  *)
(* [o |-> record] and a JSON scalar [v |-> string]; a body is a sequence   *)
(* of characters.                                                          *)

Has(d, k) == k \in DOMAIN d

\* Python's  search_text in body
Contains(body, search_text) ==
    \E i \in 1..(Len(body) + 1) :
        /\ i + Len(search_text) - 1 <= Len(body)
        /\ SubSeq(body, i, i + Len(search_text) - 1) = search_text

\* the nested field access loop; Missing when the path cannot be followed
Missing == [missing |-> TRUE]

RECURSIVE Traverse(_, _)
Traverse(field_value, path) ==
    IF path = <<>> THEN field_value
    ELSE IF Has(field_value, "o") /\ Head(path) \in DOMAIN field_value.o
         THEN Traverse(field_value.o[Head(path)], Tail(path))
         ELSE Missing

FieldsMatch(root, fields) ==
    \A p \in DOMAIN fields : Traverse(root, p) = fields[p]

StatusCodeMatches(response_data, expected_status) ==
    /\ Has(response_data, "status_code")
    /\ IF Has(expected_status, "anyof")
       THEN response_data.status_code \in expected_status.anyof
       ELSE response_data.status_code = expected_status.one

\* the body of the three evaluators after the early return
HttpConditionsHold(response_data, conditions) ==
    /\ Has(conditions, "status_code")
          => StatusCodeMatches(response_data, conditions.status_code)
    /\ (Has(conditions, "json_fields") /\ Has(response_data, "json"))
          => FieldsMatch(response_data.json, conditions.json_fields)
    /\ Has(conditions, "body_contains")
          => /\ Has(response_data, "body")
             /\ Contains(response_data.body, conditions.body_contains)

\* a column text that json.loads rejects: the except branch returns False
Unparsable == [unparsable |-> TRUE]

Parses(conditions_json) == conditions_json # Unparsable

\* an evaluator without its first test: None is read as no condition at all
HttpCheckConditionsUnguarded(response_data, conditions_json) ==
    IF ~Parses(conditions_json)
    THEN FALSE
    ELSE HttpConditionsHold(response_data, conditions_json)

\* HttpMonitor.check_conditions
HttpCheckConditions(response_data, conditions_json) ==
    IF conditions_json = NoneCond \/ Has(response_data, "error")
    THEN FALSE
    ELSE IF ~Parses(conditions_json)
    THEN FALSE
    ELSE HttpConditionsHold(response_data, conditions_json)

\* dict.get(key, default)
Get(d, k, default) == IF Has(d, k) THEN d[k] ELSE default

Infinity == 1000000

\* DatabaseMonitor.check_conditions
DatabaseCheckConditions(response_data, conditions_json) ==
    IF conditions_json = NoneCond \/ Has(response_data, "error")
    THEN FALSE
    ELSE IF ~Parses(conditions_json)
    THEN FALSE
    ELSE LET c == conditions_json IN
         /\ Has(c, "min_row_count")
               => ~(Get(response_data, "row_count", 0) < c.min_row_count)
         /\ Has(c, "max_row_count")
               => ~(Get(response_data, "row_count", 0) > c.max_row_count)
         /\ Has(c, "max_response_time")
               => ~(Get(response_data, "response_time_seconds", Infinity)
                        > c.max_response_time)
         /\ (Has(c, "data_fields") /\ Has(response_data, "data")
                /\ response_data.data # <<>>)
               => FieldsMatch(response_data.data[1], c.data_fields)

\* scheduler_service.MonitorService._check_conditions
SchedulerCheckConditions(response_data, conditions_json) ==
    IF conditions_json = NoneCond
    THEN FALSE
    ELSE IF ~Parses(conditions_json)
    THEN FALSE
    ELSE HttpConditionsHold(response_data, conditions_json)

check_conditions(monitor, response_data, conditions_json) ==
    CASE monitor = "HttpMonitor" ->
            HttpCheckConditions(response_data, conditions_json)
      [] monitor = "DatabaseMonitor" ->
            DatabaseCheckConditions(response_data, conditions_json)
      [] OTHER -> SchedulerCheckConditions(response_data, conditions_json)

\* json.dumps(conditions) if conditions else None
StoredConditions(conditions) ==
    IF conditions = NoneCond \/ DOMAIN conditions = {} THEN NoneCond
    ELSE conditions

----------------------------------------------------------------------------
(* Inputs: the start requests and the outcomes of a probe's network call.  *)

Status200 == [one |-> 200]
Status200or500 == [anyof |-> {200, 500}]

HttpRequest ==
    [service_name |-> "http", job_id |-> "job-1",
     success_conditions |-> [status_code |-> Status200],
     failure_conditions |-> [status_code |-> Status200or500],
     check_interval |-> DefaultCheckInterval]

\* a request whose check_interval is longer than the heartbeat timeout;
\* StartMonitorRequest takes any int
SlowRequest ==
    [HttpRequest EXCEPT !.job_id = "job-2",
                        !.check_interval = SlowCheckInterval]

DatabaseRequest ==
    [service_name |-> "MySQL", job_id |-> "job-1",
     success_conditions |-> [min_row_count |-> 1],
     failure_conditions |-> [max_row_count |-> 0],
     check_interval |-> DefaultCheckInterval]

Requests == {HttpRequest, DatabaseRequest}

HttpResponse(code) == [status_code |-> code, body |-> <<"o", "k">>]
DbResponse(n) ==
    [status |-> "success", row_count |-> n, response_time_seconds |-> 0,
     data |-> [k \in 1..n |-> [o |-> [state |-> [v |-> "done"]]]]]

\* What a check cycle meets once it holds the row: the network call of its
\* probe gives a response, a timeout (asyncio.TimeoutError) or any other
\* exception, or a statement outside the probe raises ("raise").
HttpOutcomes ==
    {[kind |-> "response", data |-> HttpResponse(c)] : c \in {200, 500, 404}}
        \cup {[kind |-> "timeout"], [kind |-> "exception"], [kind |-> "raise"]}
DbOutcomes ==
    {[kind |-> "response", data |-> DbResponse(n)] : n \in {0, 1}}
        \cup {[kind |-> "exception"], [kind |-> "raise"]}

Outcomes(monitor) ==
    IF monitor = "DatabaseMonitor" THEN DbOutcomes ELSE HttpOutcomes

TimeoutError == [error |-> "HTTP request timeout"]
RequestFailed == [error |-> "HTTP request failed"]
DatabaseCheckFailed == [error |-> "Database check failed"]
GloballyTimedOut == [error |-> "Task globally timed out"]
MaxRetriesExceeded == [error |-> "Max retries exceeded after instance failure"]
MonitoringError == [error |-> "Monitoring error"]
ManuallyStopped == [message |-> "Manually stopped"]

\* HttpMonitor / DatabaseMonitor .check_service_status: every failure of the
\* call is returned as an error dict, never raised
check_service_status(monitor, outcome) ==
    IF outcome.kind = "response" THEN outcome.data
    ELSE IF monitor = "DatabaseMonitor" THEN DatabaseCheckFailed
    ELSE IF outcome.kind = "timeout" THEN TimeoutError
    ELSE RequestFailed

----------------------------------------------------------------------------
(* The task store *)

TaskIds == DOMAIN tasks

\* a new MonitorTask row (column defaults of app/models/database.py)
MonitorTask(req, status, instance_id, current_time) ==
    [service_name |-> req.service_name,
     job_id |-> req.job_id,
     status |-> status,
     result |-> NoResult,
     created_at |-> current_time,
     completed_at |-> NULL,
     timeout_at |-> current_time + task_timeout,
     success_conditions |-> StoredConditions(req.success_conditions),
     failure_conditions |-> StoredConditions(req.failure_conditions),
     assigned_instance |-> instance_id,
     last_heartbeat |-> current_time,
     retry_count |-> DefaultRetryCount,
     max_retries |-> DefaultMaxRetries,
     check_interval |-> req.check_interval]

\* the instance whose check cycle holds the row lock of task t, if any
LockHolders(t) ==
    {i \in Instances : proc[i].pc = "check" /\ proc[i].task = t}

\* a store whose locked reads do not lock
NeverLocked(t, i) == FALSE

LockedByOther(t, i) == LockHolders(t) \ {i} # {}

\* The instants of a run.  One step of time is longer than the heartbeat
\* timeout, so every heartbeat written before a step is stale after it; the
\* last instant of Instants is the deadline of a task created at 0.
Instants == <<3 * heartbeat_timeout, task_timeout>>

InitWith(instants, instances, reqs, observed) ==
    /\ build \in Builds
    /\ requests = reqs
    /\ now = 0
    /\ clock = instants
    /\ tasks = <<>>
    /\ inst = [i \in Instances |-> IF i \in instances THEN "new" ELSE "down"]
    /\ jobs = [i \in Instances |-> {}]
    /\ proc = [i \in Instances |-> Idle]
    /\ reply = IF observed THEN NoReply ELSE Unobserved
    /\ reclaims = <<>>
    /\ scan_tasks = <<>>
    /\ scan_proc = <<>>
    /\ sent = <<>>
    /\ walk = NoWalk
    /\ manager = NoConnections
    /\ sockets = <<>>
    /\ sending = NoSend

Init == InitWith(Instants, Instances, {HttpRequest}, FALSE)

\* the value of reply after a step that returns r
Return(r) == IF reply = Unobserved THEN Unobserved ELSE r

----------------------------------------------------------------------------
(* Time *)

\* Time passes between operations: every operation (a probe's call is
\* bounded by its 10 s timeout) is shorter than one step of time.
Tick ==
    /\ clock # <<>>
    /\ \A i \in Instances : proc[i] = Idle
    /\ now' = Head(clock)
    /\ clock' = Tail(clock)
    /\ UNCHANGED <<build, requests, tasks, inst, jobs, proc, reclaims>>
    /\ reply' = Return(NoReply)
    /\ UNCHANGED scan_vars

----------------------------------------------------------------------------
(* start_monitoring *)

\* an existence check that overlooks the rows still pending
ExistingTaskFilterRunningOnly(task, service_name, job) ==
    /\ task.service_name = service_name
    /\ task.job_id = job
    /\ task.status = "running"

\* the filter of the existence check
ExistingTaskFilter(task, service_name, job) ==
    /\ task.service_name = service_name
    /\ task.job_id = job
    /\ task.status \in {"pending", "running"}

ExistingTasks(service_name, job) ==
    {t \in TaskIds : ExistingTaskFilter(tasks[t], service_name, job)}

\* the status a new row is inserted with
InitialStatus(b) == IF b = "monitor_service" THEN "pending" ELSE "running"

\* a row inserted without its owner
InitialOwnerUnset(instance_id) == NULL

\* the owner a new row is inserted with
InitialOwner(instance_id) == instance_id

\* the instances between their existence check and their INSERT
Creating == {i \in Instances : proc[i].pc = "create"}

\* The existence check.  .first() has no ORDER BY: any matching row may be
\* the one returned.  scheduler_service reads it FOR UPDATE.
StartMonitoring(i, req) ==
    /\ req \in requests
    /\ inst[i] = "up"
    /\ proc[i] = Idle
    /\ LET existing == ExistingTasks(req.service_name, req.job_id) IN
       IF existing # {}
       THEN /\ \E t \in existing :
                 /\ build = "scheduler_service" => ~LockedByOther(t, i)
                 /\ reply' = Return([op |-> "start_monitoring", instance |-> i,
                                         task_id |-> t])
            /\ UNCHANGED <<build, requests, now, clock, tasks, inst, jobs, proc, reclaims>>
       ELSE /\ Len(tasks) + Cardinality(Creating) < MaxTasks
            /\ now <= MaxStartTime
            /\ proc' = [proc EXCEPT ![i] = [pc |-> "create", req |-> req]]
            /\ reply' = Return(NoReply)
            /\ UNCHANGED <<build, requests, now, clock, tasks, inst, jobs, reclaims>>
    /\ UNCHANGED scan_vars

\* db.add(new_task); db.commit().  scheduler_service inserts the row as
\* running and schedules the job in the same synchronous stretch.
StartMonitoringCreate(i) ==
    /\ proc[i].pc = "create"
    /\ LET task_id == Len(tasks) + 1
           new_task == MonitorTask(proc[i].req, InitialStatus(build),
                                   InitialOwner(i), now)
       IN  /\ tasks' = Append(tasks, new_task)
           /\ reclaims' = Append(reclaims, 0)
           /\ IF build = "monitor_service"
              THEN /\ proc' = [proc EXCEPT ![i] =
                                   [pc |-> "schedule", task |-> task_id]]
                   /\ reply' = Return(NoReply)
                   /\ UNCHANGED jobs
              ELSE /\ jobs' = [jobs EXCEPT ![i] =
                                   @ \cup {job_id("MonitorService", task_id)}]
                   /\ proc' = [proc EXCEPT ![i] = Idle]
                   /\ reply' = Return([op |-> "start_monitoring",
                                           instance |-> i,
                                           task_id |-> task_id])
    /\ UNCHANGED <<build, requests, now, clock, inst>>
    /\ UNCHANGED scan_vars

\* monitor_service: monitor.schedule_monitor_job(new_task), then
\* new_task.status = 'running'; db.commit()
StartMonitoringSchedule(i) ==
    /\ proc[i].pc = "schedule"
    /\ LET t == proc[i].task IN
       /\ ~LockedByOther(t, i)
       /\ jobs' = [jobs EXCEPT ![i] =
                       @ \cup {job_id(get_monitor(tasks[t].service_name), t)}]
       /\ tasks' = [tasks EXCEPT ![t].status = "running"]
       /\ reply' = Return([op |-> "start_monitoring", instance |-> i,
                                         task_id |-> t])
    /\ proc' = [proc EXCEPT ![i] = Idle]
    /\ UNCHANGED <<build, requests, now, clock, inst, reclaims>>
    /\ UNCHANGED scan_vars

----------------------------------------------------------------------------
(* The check cycle: BaseMonitor.execute_check with a monitor's            *)
(* check_service_status, check_conditions and complete_monitoring, and     *)
(* scheduler_service's _check_service_status.                              *)

MonitorOfJob(j) ==
    CASE j[1] = "http_monitor" -> "HttpMonitor"
      [] j[1] = "db_monitor" -> "DatabaseMonitor"
      [] OTHER -> "MonitorService"

\* a locked read that does not look at the status
CheckFilterAnyStatus(task, instance_id) ==
    task.assigned_instance = instance_id

\* a locked read that does not look at the owner
CheckFilterAnyOwner(task, instance_id) ==
    task.status = "running"

\* the filter of the locked read of a check cycle
CheckFilter(task, instance_id) ==
    /\ task.assigned_instance = instance_id
    /\ task.status = "running"

\* a completion that leaves completed_at alone
CompletedWithoutTime(task, status, result_data) ==
    [task EXCEPT !.status = status, !.result = result_data]

\* complete_monitoring: the row as committed
Completed(task, status, result_data) ==
    [task EXCEPT !.status = status, !.completed_at = now,
                 !.result = result_data]

\* a completion that leaves the timer in the scheduler
complete_monitoring_keeps_job(i, t, task, monitor, status, result_data) ==
    /\ tasks' = [tasks EXCEPT ![t] = Completed(task, status, result_data)]
    /\ UNCHANGED jobs

\* complete_monitoring on instance i, of the row object task of the session
complete_monitoring(i, t, task, monitor, status, result_data) ==
    /\ tasks' = [tasks EXCEPT ![t] = Completed(task, status, result_data)]
    /\ jobs' = [jobs EXCEPT ![i] = @ \ {job_id(monitor, t)}]

\* the two condition checks in the other order
CheckDecisionFailureFirst(monitor, task, response_data) ==
    IF check_conditions(monitor, response_data, task.failure_conditions)
    THEN "failed"
    ELSE IF check_conditions(monitor, response_data, task.success_conditions)
    THEN "completed"
    ELSE "continue"

\* the order of the two condition checks of a cycle
CheckDecision(monitor, task, response_data) ==
    IF check_conditions(monitor, response_data, task.success_conditions)
    THEN "completed"
    ELSE IF check_conditions(monitor, response_data, task.failure_conditions)
    THEN "failed"
    ELSE "continue"

\* a deadline test that looks at the wrong column
ExpiredSinceCreation(task, current_time) == task.created_at <= current_time

\* the global timeout check
Expired(task, current_time) == task.timeout_at <= current_time

\* a tick that goes to the probe without the global timeout check
ExecuteCheckProbeFirst(i, j) ==
    /\ inst[i] = "up"
    /\ proc[i] = Idle
    /\ j \in jobs[i]
    /\ LET t == j[2] IN
       IF t \in TaskIds /\ CheckFilter(tasks[t], i)
       THEN /\ ~LockedByOther(t, i)
            /\ proc' = [proc EXCEPT ![i] =
                            [pc |-> "check", task |-> t,
                             monitor |-> MonitorOfJob(j),
                             current_time |-> now]]
            /\ reply' = Return(NoReply)
       ELSE reply' = Return([op |-> "execute_check", instance |-> i,
                             task_id |-> t, found |-> FALSE])
    /\ UNCHANGED <<tasks, jobs>>
    /\ UNCHANGED <<build, requests, now, clock, inst, reclaims>>
    /\ UNCHANGED scan_vars

\* A timer tick: the locked read and the global timeout check.
ExecuteCheck(i, j) ==
    /\ inst[i] = "up"
    /\ proc[i] = Idle
    /\ j \in jobs[i]
    /\ LET t == j[2] IN
       IF t \in TaskIds /\ CheckFilter(tasks[t], i)
       THEN /\ ~LockedByOther(t, i)
            /\ IF Expired(tasks[t], now)
               THEN /\ complete_monitoring(i, t, tasks[t], MonitorOfJob(j),
                                           "timeout", GloballyTimedOut)
                    /\ UNCHANGED proc
               ELSE /\ proc' = [proc EXCEPT ![i] =
                                    [pc |-> "check", task |-> t,
                                     monitor |-> MonitorOfJob(j),
                                     current_time |-> now]]
                    /\ UNCHANGED <<tasks, jobs>>
            /\ reply' = Return(NoReply)
       ELSE \* logger.warning("Task ... not found or not assigned ...")
            /\ reply' = Return([op |-> "execute_check", instance |-> i,
                                task_id |-> t, found |-> FALSE])
            /\ UNCHANGED <<tasks, jobs, proc>>
    /\ UNCHANGED <<build, requests, now, clock, inst, reclaims>>
    /\ UNCHANGED scan_vars

\* an except branch that logs everything and fails nothing
LoggedOnlyAll(b, outcome) == outcome.kind # "response"

\* the outcomes whose exception is logged and nothing else: the
\* except asyncio.TimeoutError of scheduler_service
LoggedOnly(b, outcome) == b = "scheduler_service" /\ outcome.kind = "timeout"

\* the outcomes whose exception reaches the except Exception of the cycle:
\* the probes of monitor_service return an error dict instead of raising
Raises(b, outcome) ==
    \/ outcome.kind = "raise"
    \/ b = "scheduler_service" /\ outcome.kind \in {"timeout", "exception"}

\* a heartbeat that also moves the deadline
HeartbeatSlidesDeadline(task, current_time) ==
    [task EXCEPT !.last_heartbeat = current_time,
                 !.timeout_at = current_time + task_timeout]

\* task.last_heartbeat = current_time
Heartbeat(task, current_time) == [task EXCEPT !.last_heartbeat = current_time]

\* the cycle from the heartbeat to its commit, for the response data it got
Decide(i, t, m, response_data) ==
    LET task == Heartbeat(tasks[t], proc[i].current_time)
        decision == CheckDecision(m, task, response_data)
    IN  IF decision = "continue"
        THEN /\ tasks' = [tasks EXCEPT ![t] = task]
             /\ UNCHANGED jobs
        ELSE complete_monitoring(i, t, task, m, decision, response_data)

\* the except branches of the cycle
OnException(i, t, m, outcome) ==
    IF LoggedOnly(build, outcome)
    THEN UNCHANGED <<tasks, jobs>>
    ELSE complete_monitoring(i, t,
                             Heartbeat(tasks[t], proc[i].current_time), m,
                             "failed", MonitoringError)

\* The rest of the cycle once the probe's call has ended: in a monitor of
\* monitor_service the probe returns a dict in every case.
ExecuteCheckFinish(i, outcome) ==
    /\ proc[i].pc = "check"
    /\ build = "monitor_service"
    /\ outcome \in Outcomes(proc[i].monitor)
    /\ LET t == proc[i].task
           m == proc[i].monitor
       IN  IF Raises(build, outcome)
           THEN OnException(i, t, m, outcome)
           ELSE Decide(i, t, m, check_service_status(m, outcome))
    /\ proc' = [proc EXCEPT ![i] = Idle]
    /\ UNCHANGED <<build, requests, now, clock, inst, reclaims>>
    /\ reply' = Return(NoReply)
    /\ UNCHANGED scan_vars

\* scheduler_service: the GET is inline; asyncio.TimeoutError is logged and
\* the session closed without a commit, any other exception fails the task.
CheckServiceStatusFinish(i, outcome) ==
    /\ proc[i].pc = "check"
    /\ build = "scheduler_service"
    /\ outcome \in Outcomes(proc[i].monitor)
    /\ LET t == proc[i].task
           m == proc[i].monitor
       IN  IF Raises(build, outcome)
           THEN OnException(i, t, m, outcome)
           ELSE Decide(i, t, m, outcome.data)
    /\ proc' = [proc EXCEPT ![i] = Idle]
    /\ UNCHANGED <<build, requests, now, clock, inst, reclaims>>
    /\ reply' = Return(NoReply)
    /\ UNCHANGED scan_vars

----------------------------------------------------------------------------
(* Recovery: the periodic sweep and the startup scan *)

\* whether the class has the _schedule_monitor_job both recoveries call:
\* scheduler_service defines it; monitor_service.MonitorService does not, the
\* call raises AttributeError and the per-task except logs it
HasScheduleMonitorJob(b) == b = "scheduler_service"

\* a recovery that installs its jobs under an id of its own
RecoveryJobsOwnId(b, rescheduled) ==
    IF HasScheduleMonitorJob(b)
    THEN {<<"recovered_monitor", t>> : t \in rescheduled}
    ELSE {}

\* the jobs a recovery installs for the tasks it rescheduled
RecoveryJobs(b, rescheduled) ==
    IF HasScheduleMonitorJob(b)
    THEN {job_id("MonitorService", t) : t \in rescheduled}
    ELSE {}

\* the filter of the sweep's locked query
OrphanFilter(task, instance_id, current_time) ==
    /\ task.status = "running"
    /\ task.last_heartbeat < current_time - heartbeat_timeout
    /\ task.assigned_instance # NULL
    /\ task.assigned_instance # instance_id
    /\ task.timeout_at > current_time

\* a retry test that is off by one
RetriesExceededLate(task) == task.retry_count > task.max_retries + 1

\* whether the retries of a task the sweep has just taken are exhausted
RetriesExceeded(task) == task.retry_count > task.max_retries

\* the sweep's loop body: the row as committed
Reclaimed(task, instance_id, current_time) ==
    LET taken == [task EXCEPT !.assigned_instance = instance_id,
                              !.last_heartbeat = current_time,
                              !.retry_count = @ + 1]
    IN  IF RetriesExceeded(taken)
        THEN [taken EXCEPT !.status = "failed",
                           !.completed_at = current_time,
                           !.result = MaxRetriesExceeded]
        ELSE taken

\* _recover_orphaned_tasks: query FOR UPDATE, loop, commit, with no
\* suspension point in between
RecoverOrphanedTasks(i) ==
    /\ inst[i] = "up"
    /\ proc[i] = Idle
    /\ LET orphaned_tasks ==
               {t \in TaskIds : OrphanFilter(tasks[t], i, now)}
           rescheduled ==
               {t \in orphaned_tasks :
                    Reclaimed(tasks[t], i, now).status = "running"}
       IN  /\ \A t \in orphaned_tasks : ~LockedByOther(t, i)
           /\ tasks' = [t \in TaskIds |->
                           IF t \in orphaned_tasks
                           THEN Reclaimed(tasks[t], i, now)
                           ELSE tasks[t]]
           /\ reclaims' = [t \in TaskIds |->
                              IF t \in orphaned_tasks
                              THEN reclaims[t] + 1 ELSE reclaims[t]]
           /\ jobs' = [jobs EXCEPT ![i] =
                           @ \cup RecoveryJobs(build, rescheduled)]
    /\ UNCHANGED <<build, requests, now, clock, inst, proc>>
    /\ reply' = Return([op |-> "recover_orphaned_tasks", instance |-> i])
    /\ UNCHANGED scan_vars

\* the filter of the startup scan's query (no FOR UPDATE)
RecoverFilter(task, instance_id, current_time) ==
    /\ task.status \in {"pending", "running"}
    /\ \/ task.assigned_instance = instance_id
       \/ /\ task.status = "running"
          /\ task.last_heartbeat < current_time - heartbeat_timeout
       \/ /\ task.status = "pending"
          /\ task.assigned_instance = NULL
    /\ task.timeout_at > current_time

\* the processes that run
Live == {i \in Instances : inst[i] = "up" \/ proc[i].pc = "recover"}

\* start_service up to the scan's query: the rows as loaded
StartService(i) ==
    /\ inst[i] = "new"
    /\ proc[i] = Idle
    /\ Cardinality(Live) < MaxLive
    /\ proc' = [proc EXCEPT ![i] =
                   [pc |-> "recover", current_time |-> now,
                    loaded |-> [t \in {u \in TaskIds :
                                          RecoverFilter(tasks[u], i, now)}
                                   |-> tasks[t]]]]
    /\ UNCHANGED <<build, requests, now, clock, tasks, inst, jobs, reclaims>>
    /\ reply' = Return(NoReply)
    /\ UNCHANGED scan_vars

\* a scan that refreshes the heartbeat without taking the task
RecoveredKeepsOwner(task, instance_id, current_time) ==
    IF task.timeout_at <= current_time
    THEN [task EXCEPT !.status = "timeout",
                      !.completed_at = current_time,
                      !.result = GloballyTimedOut]
    ELSE [task EXCEPT !.status = "running",
                      !.last_heartbeat = current_time]

\* the scan's loop body: the attributes it sets on a loaded row
Recovered(task, instance_id, current_time) ==
    IF Expired(task, current_time)
    THEN [task EXCEPT !.status = "timeout",
                      !.completed_at = current_time,
                      !.result = GloballyTimedOut]
    ELSE [task EXCEPT !.assigned_instance = instance_id,
                      !.status = "running",
                      !.last_heartbeat = current_time]

\* The session's flush: an UPDATE by primary key that sets exactly the
\* columns whose value differs from the loaded one.
Flush(row, loaded, changed) ==
    [c \in DOMAIN row |-> IF changed[c] # loaded[c] THEN changed[c] ELSE row[c]]

\* the scan's loop and its commit; start_service returns
RecoverMonitoringTasks(i) ==
    /\ proc[i].pc = "recover"
    /\ LET loaded == proc[i].loaded
           ct == proc[i].current_time
           rescheduled ==
               {t \in DOMAIN loaded : loaded[t].timeout_at > ct}
       IN  /\ \A t \in DOMAIN loaded : ~LockedByOther(t, i)
           /\ tasks' = [t \in TaskIds |->
                           IF t \in DOMAIN loaded
                           THEN Flush(tasks[t], loaded[t],
                                      Recovered(loaded[t], i, ct))
                           ELSE tasks[t]]
           /\ reclaims' = [t \in TaskIds |->
                              IF t \in rescheduled
                                 /\ tasks[t].assigned_instance # i
                              THEN reclaims[t] + 1 ELSE reclaims[t]]
           /\ jobs' = [jobs EXCEPT ![i] =
                           @ \cup RecoveryJobs(build, rescheduled)]
    /\ inst' = [inst EXCEPT ![i] = "up"]
    /\ proc' = [proc EXCEPT ![i] = Idle]
    /\ UNCHANGED <<build, requests, now, clock>>
    /\ reply' = Return(NoReply)
    /\ UNCHANGED scan_vars

----------------------------------------------------------------------------
(* Stopping a task, and the end of an instance *)

\* scheduler_service.MonitorService.stop_monitoring; task_id may name no row
StopMonitoring(i, task_id) ==
    /\ build = "scheduler_service"
    /\ inst[i] = "up"
    /\ proc[i] = Idle
    /\ IF task_id \in TaskIds /\ tasks[task_id].status = "running"
       THEN /\ ~LockedByOther(task_id, i)
            /\ complete_monitoring(i, task_id, tasks[task_id],
                                   "MonitorService", "stopped",
                                   ManuallyStopped)
            /\ reply' = Return([op |-> "stop_monitoring", ok |-> TRUE])
       ELSE /\ reply' = Return([op |-> "stop_monitoring", ok |-> FALSE])
            /\ UNCHANGED <<tasks, jobs>>
    /\ UNCHANGED <<build, requests, now, clock, inst, proc, reclaims>>
    /\ UNCHANGED scan_vars

\* the status string get_monitoring_status reports for a row
ReportedStatus(task) == task.status

\* DELETE /stop/{task_id} of routes/monitor.py.  monitor_service.MonitorService
\* has no get_monitoring_status: the call raises and the route answers 500.
\* With scheduler_service's method the route answers 404 for an unknown id,
\* and returns before the stop unless the reported status is "monitoring".
StopRoute(i, task_id) ==
    /\ inst[i] = "up"
    /\ proc[i] = Idle
    /\ IF build = "monitor_service"
       THEN /\ reply' = Return([op |-> "stop_route", code |-> 500])
            /\ UNCHANGED tasks
       ELSE IF task_id \notin TaskIds
       THEN /\ reply' = Return([op |-> "stop_route", code |-> 404])
            /\ UNCHANGED tasks
       ELSE IF ReportedStatus(tasks[task_id]) # "monitoring"
       THEN /\ reply' = Return([op |-> "stop_route", code |-> 200])
            /\ UNCHANGED tasks
       ELSE \* _stop_monitoring is defined by neither class
            /\ reply' = Return([op |-> "stop_route", code |-> 500])
            /\ UNCHANGED tasks
    /\ UNCHANGED <<build, requests, now, clock, inst, jobs, proc, reclaims>>
    /\ UNCHANGED scan_vars

\* a shutdown that also releases the rows the instance owns
StopServiceReleasing(i) ==
    /\ inst[i] = "up"
    /\ proc[i] = Idle
    /\ inst' = [inst EXCEPT ![i] = "down"]
    /\ jobs' = [jobs EXCEPT ![i] = {}]
    /\ tasks' = [t \in TaskIds |->
                    IF tasks[t].status = "running"
                       /\ tasks[t].assigned_instance = i
                    THEN [tasks[t] EXCEPT !.assigned_instance = NULL]
                    ELSE tasks[t]]
    /\ UNCHANGED <<build, requests, now, clock, proc, reclaims>>
    /\ reply' = Return([op |-> "stop_service", instance |-> i])
    /\ UNCHANGED scan_vars

\* stop_service / shutdown_event: the scheduler is shut down
StopService(i) ==
    /\ inst[i] = "up"
    /\ proc[i] = Idle
    /\ inst' = [inst EXCEPT ![i] = "down"]
    /\ jobs' = [jobs EXCEPT ![i] = {}]
    /\ UNCHANGED <<build, requests, now, clock, tasks, proc, reclaims>>
    /\ reply' = Return([op |-> "stop_service", instance |-> i])
    /\ UNCHANGED scan_vars

\* The process dies: its timers are gone, its open transaction is rolled
\* back and its row locks are released.
Crash(i) ==
    /\ inst[i] = "up" \/ proc[i] # Idle
    /\ inst' = [inst EXCEPT ![i] = "down"]
    /\ jobs' = [jobs EXCEPT ![i] = {}]
    /\ proc' = [proc EXCEPT ![i] = Idle]
    /\ UNCHANGED <<build, requests, now, clock, tasks, reclaims>>
    /\ reply' = Return(NoReply)
    /\ UNCHANGED scan_vars

----------------------------------------------------------------------------

TaskRefs == 1..(MaxTasks + 1)

Next ==
    \/ Tick
    \/ \E i \in Instances :
          \/ StartService(i)
          \/ RecoverMonitoringTasks(i)
          \/ \E req \in Requests : StartMonitoring(i, req)
          \/ StartMonitoringCreate(i)
          \/ StartMonitoringSchedule(i)
          \/ \E j \in jobs[i] : ExecuteCheck(i, j)
          \/ \E o \in HttpOutcomes \cup DbOutcomes : ExecuteCheckFinish(i, o)
          \/ \E o \in HttpOutcomes \cup DbOutcomes :
                CheckServiceStatusFinish(i, o)
          \/ RecoverOrphanedTasks(i)
          \/ \E t \in TaskRefs : StopMonitoring(i, t)
          \/ \E t \in TaskRefs : StopRoute(i, t)
          \/ StopService(i)
          \/ Crash(i)

Spec == Init /\ [][Next]_vars

\* start_service called again on a service object that stop_service has
\* stopped: the object keeps the instance_id its constructor drew.  Used
\* where no process dies, so that an instance that is down is a stopped one.
StartServiceAgain(i) ==
    /\ inst[i] = "down"
    /\ proc[i] = Idle
    /\ Cardinality(Live) < MaxLive
    /\ proc' = [proc EXCEPT ![i] =
                   [pc |-> "recover", current_time |-> now,
                    loaded |-> [t \in {u \in TaskIds :
                                          RecoverFilter(tasks[u], i, now)}
                                   |-> tasks[t]]]]
    /\ UNCHANGED <<build, requests, now, clock, tasks, inst, jobs, reclaims>>
    /\ reply' = Return(NoReply)
    /\ UNCHANGED scan_vars

\* Services that are stopped and started again; no process dies.
NextRestart ==
    \/ Tick
    \/ \E i \in Instances :
          \/ StartService(i)
          \/ StartServiceAgain(i)
          \/ RecoverMonitoringTasks(i)
          \/ \E req \in Requests : StartMonitoring(i, req)
          \/ StartMonitoringCreate(i)
          \/ StartMonitoringSchedule(i)
          \/ \E j \in jobs[i] : ExecuteCheck(i, j)
          \/ \E o \in HttpOutcomes \cup DbOutcomes : ExecuteCheckFinish(i, o)
          \/ \E o \in HttpOutcomes \cup DbOutcomes :
                CheckServiceStatusFinish(i, o)
          \/ RecoverOrphanedTasks(i)
          \/ StopService(i)

InitRestart == InitWith(Instants, 1..2, {HttpRequest}, FALSE)

SpecRestart == InitRestart /\ [][NextRestart]_vars

\* Runs in which the timers fire on time.  Instants are IntervalStep apart
\* and end before the first firing of a slow timer; every task is created
\* at 0, an interval job first fires one interval after add_job, and a
\* timer of the default interval is due at every instant.
IntervalStep == DefaultCheckInterval
LastInstant == (SlowCheckInterval \div IntervalStep) - 1

IntervalInstants == [k \in 1..LastInstant |-> k * IntervalStep]

\* the interval trigger of the job of task t fires at now
Due(t) ==
    /\ now > tasks[t].created_at
    /\ (now - tasks[t].created_at) % tasks[t].check_interval = 0

\* the check cycles that are due at now and have not committed yet
Pending(i) ==
    {j \in jobs[i] :
        /\ j[2] \in TaskIds
        /\ CheckFilter(tasks[j[2]], i)
        /\ Due(j[2])
        /\ tasks[j[2]].last_heartbeat # now}

\* a timer fires when it is due
ExecuteCheckDue(i, j) ==
    /\ j \in Pending(i)
    /\ ExecuteCheck(i, j)

\* time passes once the live instances have run the cycles that were due
TickOnTime ==
    /\ \A i \in Instances : inst[i] = "up" => Pending(i) = {}
    /\ Tick

\* No instance stops or dies.
NextInterval ==
    \/ TickOnTime
    \/ \E i \in Instances :
          \/ StartService(i)
          \/ RecoverMonitoringTasks(i)
          \/ \E req \in requests : StartMonitoring(i, req)
          \/ StartMonitoringCreate(i)
          \/ StartMonitoringSchedule(i)
          \/ \E j \in jobs[i] : ExecuteCheckDue(i, j)
          \/ \E o \in HttpOutcomes \cup DbOutcomes : ExecuteCheckFinish(i, o)
          \/ \E o \in HttpOutcomes \cup DbOutcomes :
                CheckServiceStatusFinish(i, o)
          \/ RecoverOrphanedTasks(i)

InitInterval ==
    InitWith(IntervalInstants, 1..2, {HttpRequest, SlowRequest}, FALSE)

SpecInterval == InitInterval /\ [][NextInterval]_vars

\* Runs long enough to exhaust a task's retries: two instances, and four
\* instants before the deadline at which a heartbeat is stale again.
RetryInstants ==
    <<3 * heartbeat_timeout, 6 * heartbeat_timeout, 9 * heartbeat_timeout,
      12 * heartbeat_timeout>>

InitRetry == InitWith(RetryInstants, 1..2, {HttpRequest}, FALSE)

SpecRetry == InitRetry /\ [][Next]_vars

\* Runs that observe which operation ran last, up to a task's deadline.
InitDeadline ==
    InitWith(<<3 * heartbeat_timeout, task_timeout>>, 1..2, {HttpRequest}, TRUE)

SpecDeadline == InitDeadline /\ [][Next]_vars

\* Runs that observe what the calls return, with tasks of both monitors.
InitApi == InitWith(<<3 * heartbeat_timeout>>, 1..2, Requests, TRUE)

SpecApi == InitApi /\ [][Next]_vars

\* Runs under the scheduling the program relies on.  Time passes through
\* every instant of the run; an APScheduler interval job (a task's timer, the
\* recovery sweep) of a running instance fires again; an operation in flight
\* goes on to its next statement.  Nothing obliges an instance to stay up, a
\* client to call, or a probe to answer in a particular way.  At the last
\* instant of a run every task is at its deadline, so no task is left
\* waiting for time to pass.
PossibleJobs ==
    {job_id(m, t) : m \in {"HttpMonitor", "DatabaseMonitor", "MonitorService"},
                    t \in 1..MaxTasks}

Fairness ==
    /\ <>(clock = <<>>)
    /\ \A i \in Instances :
          /\ WF_vars(RecoverMonitoringTasks(i))
          /\ WF_vars(StartMonitoringCreate(i))
          /\ WF_vars(StartMonitoringSchedule(i))
          /\ WF_vars(\E o \in HttpOutcomes \cup DbOutcomes :
                        ExecuteCheckFinish(i, o))
          /\ WF_vars(\E o \in HttpOutcomes \cup DbOutcomes :
                        CheckServiceStatusFinish(i, o))
          /\ WF_vars(RecoverOrphanedTasks(i))
          /\ \A j \in PossibleJobs : WF_vars(ExecuteCheck(i, j))

InitFair ==
    InitWith(<<3 * heartbeat_timeout, task_timeout>>, 1..2, {HttpRequest}, FALSE)

FairSpec == InitFair /\ [][Next]_vars /\ Fairness

----------------------------------------------------------------------------
(* The scan tasks of app/routes/scan.py: a user triggers a Jenkins job, a   *)
(* background task follows the build, and every change of a row is handed  *)
(* to the WebSocket manager as a task update.                              *)

NumUsers == 2
MaxScanTasks == 2

Users == 1..NumUsers
ScanIds == DOMAIN scan_tasks

\* a new ScanTask row (column defaults of app/models/database.py)
ScanTask(job_name, triggered_by, status) ==
    [job_name |-> job_name,
     triggered_by |-> triggered_by,
     status |-> status,
     jenkins_build_number |-> NULL,
     result |-> NoResult,
     created_at |-> now,
     completed_at |-> NULL]

\* ConnectionManager.send_task_update: the message and its addressee
TaskUpdate(id, task) ==
    [type |-> "task_update",
     user_id |-> task.triggered_by, task_id |-> id, status |-> task.status,
     jenkins_build_number |-> task.jenkins_build_number,
     result |-> task.result]

\* what jenkins_service.build_job gives: a build number, -1 when the queue
\* never told the number, or an exception
BuildNumber == 123
NoBuildNumber == -1
BuildOutcomes ==
    {[kind |-> "number", build_number |-> n] : n \in {BuildNumber, NoBuildNumber}}
        \cup {[kind |-> "raise"]}

JenkinsError == [error |-> "Failed to trigger job build"]

\* a trigger that gives up on a Jenkins error without touching the row
TriggeredRowKept(task, outcome) ==
    IF outcome.kind = "raise"
    THEN task
    ELSE [task EXCEPT !.jenkins_build_number = outcome.build_number,
                      !.status = IF outcome.build_number > 0
                                 THEN "triggered" ELSE "failed"]

\* the row as committed once build_job has returned or raised
TriggeredRow(task, outcome) ==
    IF outcome.kind = "raise"
    THEN [task EXCEPT !.status = "failed", !.result = JenkinsError]
    ELSE [task EXCEPT !.jenkins_build_number = outcome.build_number,
                      !.status = IF outcome.build_number > 0
                                 THEN "triggered" ELSE "failed"]

\* POST /trigger up to the first commit: the row is inserted as pending
TriggerScanTask(u, job_name) ==
    /\ Len(scan_tasks) < MaxScanTasks
    /\ scan_tasks' = Append(scan_tasks, ScanTask(job_name, u, "pending"))
    /\ scan_proc' = Append(scan_proc, [pc |-> "build_job"])
    /\ reply' = Return(NoReply)
    /\ UNCHANGED <<sent, walk>>
    /\ UNCHANGED ws_vars
    /\ UNCHANGED monitor_vars

\* POST /trigger from the return of build_job to the response: the second
\* commit, the background task, the task update and the answer
TriggerScanTaskFinish(id, outcome) ==
    /\ id \in ScanIds
    /\ scan_proc[id].pc = "build_job"
    /\ outcome \in BuildOutcomes
    /\ LET scan_task == TriggeredRow(scan_tasks[id], outcome) IN
       /\ scan_tasks' = [scan_tasks EXCEPT ![id] = scan_task]
       /\ sent' = Append(sent, TaskUpdate(id, scan_task))
       /\ scan_proc' = [scan_proc EXCEPT ![id] =
                            IF scan_task.status = "triggered"
                            THEN [pc |-> "monitor_task_status"]
                            ELSE [pc |-> "done"]]
       /\ reply' = Return([op |-> "trigger_scan_task", id |-> id,
                           code |-> IF outcome.kind = "raise" THEN 500 ELSE 200,
                           outcome |-> outcome])
    /\ UNCHANGED walk
    /\ UNCHANGED ws_vars
    /\ UNCHANGED monitor_vars

\* what jenkins_service.get_build_status gives to a poll
BuildStatuses ==
    {[kind |-> "building"], [kind |-> "raise"]}
        \cup {[kind |-> "built", result |-> r] :
                 r \in {"SUCCESS", "FAILURE", "ABORTED"}}

BuildStatusResult(build_status) == [result |-> build_status.result]

\* One pass of the loop of the background task monitor_task_status.  The
\* passes are not counted: the loop may give up (attempt >= max_attempts)
\* after any pass that did not end it.
MonitorTaskStatus(id, build_status) ==
    /\ id \in ScanIds
    /\ scan_proc[id].pc = "monitor_task_status"
    /\ build_status \in BuildStatuses
    /\ LET task == scan_tasks[id] IN
       CASE build_status.kind = "raise" ->
               UNCHANGED <<scan_tasks, scan_proc, sent>>
         [] build_status.kind = "building" ->
               IF task.status # "running"
               THEN LET running == [task EXCEPT !.status = "running"] IN
                    /\ scan_tasks' = [scan_tasks EXCEPT ![id] = running]
                    /\ sent' = Append(sent, TaskUpdate(id, running))
                    /\ UNCHANGED scan_proc
               ELSE UNCHANGED <<scan_tasks, scan_proc, sent>>
         [] OTHER ->
               LET built ==
                       [task EXCEPT
                           !.status = IF build_status.result = "SUCCESS"
                                      THEN "completed" ELSE "failed",
                           !.result = BuildStatusResult(build_status),
                           !.completed_at = now]
               IN  /\ scan_tasks' = [scan_tasks EXCEPT ![id] = built]
                   /\ sent' = Append(sent, TaskUpdate(id, built))
                   /\ scan_proc' = [scan_proc EXCEPT ![id] = [pc |-> "done"]]
    /\ reply' = Return(NoReply)
    /\ UNCHANGED walk
    /\ UNCHANGED ws_vars
    /\ UNCHANGED monitor_vars

\* the loop has used up its attempts
MonitorTaskStatusTimeout(id) ==
    /\ id \in ScanIds
    /\ scan_proc[id].pc = "monitor_task_status"
    /\ LET timeout == [scan_tasks[id] EXCEPT !.status = "timeout"] IN
       /\ scan_tasks' = [scan_tasks EXCEPT ![id] = timeout]
       /\ sent' = Append(sent, TaskUpdate(id, timeout))
    /\ scan_proc' = [scan_proc EXCEPT ![id] = [pc |-> "done"]]
    /\ reply' = Return(NoReply)
    /\ UNCHANGED walk
    /\ UNCHANGED ws_vars
    /\ UNCHANGED monitor_vars

JobNames == {"scan-job"}

NextScan ==
    \/ \E u \in Users : \E job_name \in JobNames : TriggerScanTask(u, job_name)
    \/ \E id \in 1..MaxScanTasks :
          \/ \E outcome \in BuildOutcomes : TriggerScanTaskFinish(id, outcome)
          \/ \E build_status \in BuildStatuses :
                MonitorTaskStatus(id, build_status)
          \/ MonitorTaskStatusTimeout(id)

\* Runs of the scan routes alone: no monitor instance is started, and what
\* the calls return is observed.
InitScan == InitWith(<<>>, {}, {}, TRUE)

SpecScan == InitScan /\ [][NextScan]_vars

----------------------------------------------------------------------------
(* The WebSocket connection manager (app/websocket/manager.py) and the    *)
(* /ws endpoint that is its only caller.  A connection id is a uuid4 drawn *)
(* by the endpoint call: no id is drawn twice.  All coroutines run on one  *)
(* event loop, so the statements between two awaits are one step.         *)

MaxConnections == 3

ConnectionIds == DOMAIN sockets

\* dict without the key k
Without(d, k) == [x \in DOMAIN d \ {k} |-> d[x]]

\* dict with d[k] = v
With(d, k, v) == [x \in DOMAIN d \cup {k} |-> IF x = k THEN v ELSE d[x]]

\* connect, after websocket.accept(): the two maps as it leaves them
connect(m, user_id, connection_id) ==
    LET mine == IF user_id \in DOMAIN m.active_connections
                THEN m.active_connections[user_id] ELSE {}
    IN  [active_connections |->
             With(m.active_connections, user_id, mine \cup {connection_id}),
         connection_user_map |->
             With(m.connection_user_map, connection_id, user_id)]

\* a disconnect that keeps the user's key when its last connection goes
disconnect_keeps_user(m, connection_id) ==
    IF connection_id \in DOMAIN m.connection_user_map
    THEN LET user_id == m.connection_user_map[connection_id] IN
         [active_connections |->
              IF user_id \in DOMAIN m.active_connections
              THEN [m.active_connections EXCEPT
                        ![user_id] = @ \ {connection_id}]
              ELSE m.active_connections,
          connection_user_map |->
              Without(m.connection_user_map, connection_id)]
    ELSE m

\* disconnect: the two maps as it leaves them
disconnect(m, connection_id) ==
    IF connection_id \in DOMAIN m.connection_user_map
    THEN LET user_id == m.connection_user_map[connection_id]
             known == /\ user_id \in DOMAIN m.active_connections
                      /\ connection_id \in m.active_connections[user_id]
             left == m.active_connections[user_id] \ {connection_id}
         IN  [active_connections |->
                  IF ~known THEN m.active_connections
                  ELSE IF left = {}
                  THEN Without(m.active_connections, user_id)
                  ELSE [m.active_connections EXCEPT ![user_id] = left],
              connection_user_map |->
                  Without(m.connection_user_map, connection_id)]
    ELSE m

RECURSIVE DisconnectAll(_, _)
\* for connection_id in disconnected_connections: self.disconnect(...)
DisconnectAll(m, connection_ids) ==
    IF connection_ids = {} THEN m
    ELSE LET c == CHOOSE x \in connection_ids : TRUE
         IN  DisconnectAll(disconnect(m, c), connection_ids \ {c})

RECURSIVE SumOfSizes(_, _)
SumOfSizes(d, keys) ==
    IF keys = {} THEN 0
    ELSE LET k == CHOOSE x \in keys : TRUE
         IN  Cardinality(d[k]) + SumOfSizes(d, keys \ {k})

\* GET /ws/connections
get_active_connections(m) ==
    [op |-> "get_active_connections",
     total_connections |->
         SumOfSizes(m.active_connections, DOMAIN m.active_connections),
     users_connected |-> Cardinality(DOMAIN m.active_connections)]

\* The inner dict a send iterates has changed size since the iteration
\* began, or has been dropped from active_connections and emptied: the next
\* step of the iteration raises RuntimeError.
IterationBroken ==
    \/ sending.dropped
    \/ Cardinality(manager.active_connections[sending.user_id]) # sending.size

\* what a disconnect of connection_id by another coroutine does to the
\* iteration in flight: deleting the last entry drops the dict
AfterDisconnect(connection_id) ==
    IF /\ sending.pc = "iterate"
       /\ sending.user_id \in DOMAIN manager.active_connections
       /\ manager.active_connections[sending.user_id] = {connection_id}
       /\ connection_id \in DOMAIN manager.connection_user_map
    THEN [sending EXCEPT !.dropped = TRUE]
    ELSE sending

\* websocket_endpoint up to manager.connect: the call draws its connection
\* id; with a token that names no active user it closes the socket and its
\* finally clause disconnects the id, which the manager does not know
WebsocketEndpoint(u, token_ok) ==
    /\ Len(sockets) < MaxConnections
    /\ LET connection_id == Len(sockets) + 1 IN
       IF token_ok
       THEN /\ sockets' = Append(sockets, [pc |-> "accept", user_id |-> u])
            /\ UNCHANGED <<manager, sending>>
            /\ reply' = Return(NoReply)
       ELSE /\ sockets' = Append(sockets, [pc |-> "closed", user_id |-> u])
            /\ manager' = disconnect(manager, connection_id)
            /\ sending' = AfterDisconnect(connection_id)
            /\ reply' = Return([op |-> "disconnect",
                                connection_id |-> connection_id])
    /\ UNCHANGED <<scan_tasks, scan_proc, sent, walk>>
    /\ UNCHANGED monitor_vars

\* manager.connect: websocket.accept() returns and the maps are updated,
\* or it raises and the endpoint's finally clause disconnects the id
Connect(connection_id, accepted) ==
    /\ connection_id \in ConnectionIds
    /\ sockets[connection_id].pc = "accept"
    /\ IF accepted
       THEN /\ manager' = connect(manager, sockets[connection_id].user_id,
                                  connection_id)
            /\ sockets' = [sockets EXCEPT ![connection_id].pc = "connected"]
            /\ UNCHANGED sending
            /\ reply' = Return(NoReply)
       ELSE /\ manager' = disconnect(manager, connection_id)
            /\ sockets' = [sockets EXCEPT ![connection_id].pc = "closed"]
            /\ sending' = AfterDisconnect(connection_id)
            /\ reply' = Return([op |-> "disconnect",
                                connection_id |-> connection_id])
    /\ UNCHANGED <<scan_tasks, scan_proc, sent, walk>>
    /\ UNCHANGED monitor_vars

\* the endpoint's loop ends (the client has gone, or a handler raised):
\* finally: manager.disconnect(connection_id, db)
Disconnect(connection_id) ==
    /\ connection_id \in ConnectionIds
    /\ sockets[connection_id].pc = "connected"
    /\ manager' = disconnect(manager, connection_id)
    /\ sockets' = [sockets EXCEPT ![connection_id].pc = "closed"]
    /\ sending' = AfterDisconnect(connection_id)
    /\ reply' = Return([op |-> "disconnect", connection_id |-> connection_id])
    /\ UNCHANGED <<scan_tasks, scan_proc, sent, walk>>
    /\ UNCHANGED monitor_vars

\* send_personal_message(message, user_id) up to its first send
SendPersonalMessage(user_id) ==
    /\ sending = NoSend
    /\ IF user_id \in DOMAIN manager.active_connections
       THEN sending' = [pc |-> "iterate", user_id |-> user_id,
                        size |-> Cardinality(
                                     manager.active_connections[user_id]),
                        visited |-> {}, disconnected_connections |-> {},
                        dropped |-> FALSE]
       ELSE UNCHANGED sending
    /\ reply' = Return(NoReply)
    /\ UNCHANGED <<manager, sockets>>
    /\ UNCHANGED <<scan_tasks, scan_proc, sent, walk>>
    /\ UNCHANGED monitor_vars

\* the connections the iteration has still to yield: the dict keeps
\* insertion order, which is the order of the ids
ToVisit ==
    IF sending.dropped THEN {}
    ELSE {c \in manager.active_connections[sending.user_id] :
             \A v \in sending.visited : c > v}

\* One turn of the loop: websocket.send_text returns or raises; other
\* coroutines may run while it is awaited.  When the dict has changed size
\* the for statement raises and the call ends without its cleanup.
SendText(sent_ok) ==
    /\ sending.pc = "iterate"
    /\ IF IterationBroken
       THEN /\ sending' = NoSend
            /\ reply' = Return([op |-> "send_personal_message",
                                raised |-> TRUE])
            /\ UNCHANGED manager
       ELSE IF ToVisit = {}
       THEN \* the cleanup loop: no await in it
            /\ manager' = DisconnectAll(manager,
                                        sending.disconnected_connections)
            /\ sending' = NoSend
            /\ reply' = Return([op |-> "send_personal_message",
                                raised |-> FALSE])
       ELSE LET c == CHOOSE x \in ToVisit : \A y \in ToVisit : x <= y IN
            /\ sending' = [sending EXCEPT
                              !.visited = @ \cup {c},
                              !.disconnected_connections =
                                  IF sent_ok THEN @ ELSE @ \cup {c}]
            /\ reply' = Return(NoReply)
            /\ UNCHANGED manager
    /\ UNCHANGED sockets
    /\ UNCHANGED <<scan_tasks, scan_proc, sent, walk>>
    /\ UNCHANGED monitor_vars

\* GET /ws/connections
GetActiveConnections ==
    /\ reply' = Return(get_active_connections(manager))
    /\ UNCHANGED ws_vars
    /\ UNCHANGED <<scan_tasks, scan_proc, sent, walk>>
    /\ UNCHANGED monitor_vars

NextWs ==
    \/ \E u \in Users : \E token_ok \in BOOLEAN : WebsocketEndpoint(u, token_ok)
    \/ \E c \in 1..MaxConnections :
          \/ \E accepted \in BOOLEAN : Connect(c, accepted)
          \/ Disconnect(c)
    \/ \E u \in Users : SendPersonalMessage(u)
    \/ \E sent_ok \in BOOLEAN : SendText(sent_ok)
    \/ GetActiveConnections

\* Runs of the WebSocket endpoints alone, with the return values observed.
InitWs == InitWith(<<>>, {}, {}, TRUE)

SpecWs == InitWs /\ [][NextWs]_vars

----------------------------------------------------------------------------
(* The two listings of a user's scan tasks, GET /tasks and GET            *)
(* /tasks/cursor, over a table that does not change while a client pages   *)
(* through it.  A run makes one offset call, or one walk along the         *)
(* cursors.                                                                *)

MaxRows == 3
MaxLimit == 2
MaxOffset == 3

\* the status query parameter; the empty string, like None, is no filter
NoStatus == ""
StatusFilters == {NoStatus, "completed", "failed"}

\* the rows of the base query with the status filter applied
UserTasks(u, status) ==
    {id \in ScanIds : /\ scan_tasks[id].triggered_by = u
                      /\ (status # NoStatus => scan_tasks[id].status = status)}

Max(S) == CHOOSE x \in S : \A y \in S : y <= x

\* ORDER BY id DESC
RECURSIVE Descending(_)
Descending(S) ==
    IF S = {} THEN <<>> ELSE <<Max(S)>> \o Descending(S \ {Max(S)})

\* LIMIT n, and Python's tasks[:n] for n >= 0
Take(seq, n) ==
    IF n <= 0 THEN <<>>
    ELSE IF n >= Len(seq) THEN seq ELSE SubSeq(seq, 1, n)

\* a cursor filter that lets the cursor's own row through again
CursorFilterInclusive(id, cursor) ==
    (cursor # NULL /\ cursor # 0) => id <= cursor

\* if cursor: query.filter(ScanTask.id < cursor)
CursorFilter(id, cursor) ==
    (cursor # NULL /\ cursor # 0) => id < cursor

\* get_user_tasks_cursor: the response
get_user_tasks_cursor(u, limit, cursor, status) ==
    LET tasks_ == Take(Descending({id \in UserTasks(u, status) :
                                      CursorFilter(id, cursor)}),
                       limit + 1)
        has_more == Len(tasks_) > limit
        page == IF has_more THEN Take(tasks_, Len(tasks_) - 1) ELSE tasks_
    IN  [op |-> "get_user_tasks_cursor",
         items |-> page,
         next_cursor |-> IF page # <<>> THEN page[Len(page)] ELSE NULL,
         has_more |-> has_more,
         count |-> Len(page)]

\* the client asks for the first page
GetUserTasksCursorFirst(u, limit, status) ==
    /\ walk = NoWalk
    /\ reply = NoReply
    /\ LET response == get_user_tasks_cursor(u, limit, NULL, status) IN
       /\ reply' = Return(response)
       /\ walk' = [pc |-> IF response.has_more THEN "paging" ELSE "done",
                   user |-> u, limit |-> limit, status |-> status,
                   cursor |-> response.next_cursor,
                   items |-> response.items]
    /\ UNCHANGED <<scan_tasks, scan_proc, sent>>
    /\ UNCHANGED ws_vars
    /\ UNCHANGED monitor_vars

\* has_more was true: the client passes the returned next_cursor
GetUserTasksCursorNext ==
    /\ walk.pc = "paging"
    /\ LET response == get_user_tasks_cursor(walk.user, walk.limit,
                                             walk.cursor, walk.status) IN
       /\ reply' = Return(response)
       /\ walk' = [walk EXCEPT
                       !.pc = IF response.has_more THEN "paging" ELSE "done",
                       !.cursor = response.next_cursor,
                       !.items = @ \o response.items]
    /\ UNCHANGED <<scan_tasks, scan_proc, sent>>
    /\ UNCHANGED ws_vars
    /\ UNCHANGED monitor_vars

\* the orders ORDER BY created_at DESC may give: rows with equal created_at
\* come in any order
CreatedAtDescending(S) ==
    {order \in [1..Cardinality(S) -> S] :
        /\ \A a, b \in DOMAIN order : a # b => order[a] # order[b]
        /\ \A a, b \in DOMAIN order :
              a < b => scan_tasks[order[a]].created_at
                          >= scan_tasks[order[b]].created_at}

\* OFFSET n
Drop(seq, n) ==
    IF n >= Len(seq) THEN <<>> ELSE SubSeq(seq, n + 1, Len(seq))

\* a page count that rounds down
TotalPagesFloor(total_count, limit) == total_count \div limit

\* total_pages = (total_count + limit - 1) // limit
TotalPages(total_count, limit) == (total_count + limit - 1) \div limit

\* get_user_tasks for limit >= 1 and offset >= 0: the response
get_user_tasks(u, limit, offset, status, order) ==
    LET total_count == Cardinality(UserTasks(u, status)) IN
    [op |-> "get_user_tasks",
     user |-> u, offset |-> offset, status |-> status,
     items |-> Take(Drop(order, offset), limit),
     total |-> total_count,
     page |-> (offset \div limit) + 1,
     per_page |-> limit,
     total_pages |-> TotalPages(total_count, limit),
     has_next |-> offset + limit < total_count,
     has_prev |-> offset > 0]

\* GET /tasks; limit = 0 divides by zero and the request fails
GetUserTasks(u, limit, offset, status) ==
    /\ walk = NoWalk
    /\ reply = NoReply
    /\ IF limit = 0
       THEN reply' = Return([op |-> "get_user_tasks", code |-> 500])
       ELSE \E order \in CreatedAtDescending(UserTasks(u, status)) :
               reply' = Return(get_user_tasks(u, limit, offset, status, order))
    /\ UNCHANGED scan_vars
    /\ UNCHANGED ws_vars
    /\ UNCHANGED monitor_vars

NextPage ==
    \/ \E u \in Users : \E limit \in -1..MaxLimit : \E status \in StatusFilters :
          GetUserTasksCursorFirst(u, limit, status)
    \/ GetUserTasksCursorNext
    \/ \E u \in Users : \E limit \in 0..MaxLimit : \E offset \in 0..MaxOffset :
          \E status \in StatusFilters : GetUserTasks(u, limit, offset, status)

\* a row whose trigger and background task have ended
FinishedScanTask(u, status) ==
    [ScanTask("scan-job", u, status) EXCEPT
        !.jenkins_build_number = BuildNumber,
        !.result = BuildStatusResult([result |-> IF status = "completed"
                                                 THEN "SUCCESS"
                                                 ELSE "FAILURE"]),
        !.completed_at = 0]

\* the tables the listings are called on: up to MaxRows finished tasks
InitPage ==
    /\ build = "monitor_service"
    /\ requests = {}
    /\ now = 0
    /\ clock = <<>>
    /\ tasks = <<>>
    /\ inst = [i \in Instances |-> "down"]
    /\ jobs = [i \in Instances |-> {}]
    /\ proc = [i \in Instances |-> Idle]
    /\ reply = NoReply
    /\ reclaims = <<>>
    /\ \E n \in 0..MaxRows :
          /\ scan_tasks \in [1..n -> {FinishedScanTask(u, st) :
                                        u \in Users,
                                        st \in {"completed", "failed"}}]
          /\ scan_proc = [id \in 1..n |-> [pc |-> "done"]]
    /\ sent = <<>>
    /\ walk = NoWalk
    /\ manager = NoConnections
    /\ sockets = <<>>
    /\ sending = NoSend

SpecPage == InitPage /\ [][NextPage]_vars

----------------------------------------------------------------------------
(* The evaluators and the registry on their own: a call of check_conditions *)
(* or of get_monitor with arguments drawn from the sets below, one call a  *)
(* run.                                                                    *)

Done == [v |-> "done"]
Busy == [v |-> "busy"]

\* parsed JSON payloads: result.status present, different, cut short by a
\* scalar, missing, and a payload that is no object
JsonPayloads ==
    {[o |-> [result |-> [o |-> [status |-> Done]]]],
     [o |-> [result |-> [o |-> [status |-> Busy]]]],
     [o |-> [result |-> Done]],
     [o |-> [other |-> Done]],
     Done}

\* what the GET of a probe may have put into response_data: with the json
\* key only when the content type was application/json and the body parsed
HttpResponses ==
    {HttpResponse(c) : c \in {200, 500}}
        \cup {[status_code |-> c, body |-> <<"o", "k">>, json |-> js] :
                 c \in {200, 500}, js \in JsonPayloads}
        \cup {TimeoutError, RequestFailed}

\* the rows of a query: none, or a first row with columns
DbResponses ==
    {DbResponse(n) : n \in {0, 1}}
        \cup {[status |-> "success", row_count |-> 1,
                response_time_seconds |-> 0, data |-> <<row>>] :
                 row \in JsonPayloads}
        \cup {DatabaseCheckFailed}

ResultStatusIsDone == [p \in {<<"result", "status">>} |-> Done]
ResultIsDone == [p \in {<<"result">>} |-> Done]
StateIsDone == [p \in {<<"state">>} |-> Done]

EmptyDict == <<>>

\* the success_conditions / failure_conditions of a request for an HTTP task
HttpConditions ==
    {NoneCond, EmptyDict,
     [status_code |-> Status200],
     [status_code |-> Status200or500],
     [json_fields |-> ResultStatusIsDone],
     [json_fields |-> ResultIsDone],
     [status_code |-> Status200, json_fields |-> ResultStatusIsDone],
     [body_contains |-> <<"k">>],
     [body_contains |-> <<"k">>, json_fields |-> ResultStatusIsDone]}

\* the same for a database task
DbConditions ==
    {NoneCond, EmptyDict,
     [min_row_count |-> 1],
     [max_row_count |-> 0],
     [max_response_time |-> 5],
     [data_fields |-> StateIsDone],
     [data_fields |-> ResultStatusIsDone],
     [min_row_count |-> 1, data_fields |-> ResultStatusIsDone]}

\* the texts a conditions column may hold: what start_monitoring stored for
\* a request, or a text that is not JSON
ColumnTexts(conditions) ==
    {StoredConditions(c) : c \in conditions} \cup {Unparsable}

EvalMonitors == {"HttpMonitor", "DatabaseMonitor", "MonitorService"}

ResponsesOf(monitor) ==
    IF monitor = "DatabaseMonitor" THEN DbResponses ELSE HttpResponses

ConditionsOf(monitor) ==
    IF monitor = "DatabaseMonitor" THEN DbConditions ELSE HttpConditions

\* await self.check_conditions(response_data, conditions_json)
CheckConditionsCall(monitor, response_data, conditions_json) ==
    /\ reply = NoReply
    /\ reply' = Return([op |-> "check_conditions", monitor |-> monitor,
                        response_data |-> response_data,
                        conditions_json |-> conditions_json,
                        result |-> check_conditions(monitor, response_data,
                                                    conditions_json)])
    /\ UNCHANGED ws_vars
    /\ UNCHANGED monitor_vars
    /\ UNCHANGED scan_vars

\* the two condition checks of a cycle on a row with the given columns
CheckDecisionCall(monitor, response_data, success_conditions, failure_conditions) ==
    /\ reply = NoReply
    /\ LET task == [success_conditions |-> success_conditions,
                    failure_conditions |-> failure_conditions]
       IN  reply' = Return([op |-> "check_decision", monitor |-> monitor,
                            response_data |-> response_data,
                            task |-> task,
                            decision |-> CheckDecision(monitor, task,
                                                       response_data)])
    /\ UNCHANGED ws_vars
    /\ UNCHANGED monitor_vars
    /\ UNCHANGED scan_vars

\* service names, each with the lower-case spelling it stands for
ServiceNames ==
    {[name |-> "http", folded |-> "http"],
     [name |-> "HTTP", folded |-> "http"],
     [name |-> "https", folded |-> "https"],
     [name |-> "Https", folded |-> "https"],
     [name |-> "database", folded |-> "database"],
     [name |-> "DATABASE", folded |-> "database"],
     [name |-> "mysql", folded |-> "mysql"],
     [name |-> "MySQL", folded |-> "mysql"],
     [name |-> "postgresql", folded |-> "postgresql"],
     [name |-> "PostgreSQL", folded |-> "postgresql"],
     [name |-> "redis", folded |-> "redis"],
     [name |-> "", folded |-> ""]}

\* self.get_monitor(service_name)
GetMonitorCall(service_name) ==
    /\ reply = NoReply
    /\ reply' = Return([op |-> "get_monitor", service_name |-> service_name,
                        monitor |-> get_monitor(service_name)])
    /\ UNCHANGED ws_vars
    /\ UNCHANGED monitor_vars
    /\ UNCHANGED scan_vars

NextEval ==
    \/ \E monitor \in EvalMonitors :
          \E response_data \in ResponsesOf(monitor) :
             \/ \E conditions_json \in ColumnTexts(ConditionsOf(monitor)) :
                   CheckConditionsCall(monitor, response_data, conditions_json)
             \/ \E sc, fc \in ColumnTexts(ConditionsOf(monitor)) :
                   CheckDecisionCall(monitor, response_data, sc, fc)
    \/ \E n \in ServiceNames : GetMonitorCall(n.name)

InitEval == InitWith(<<>>, {}, {}, TRUE)

SpecEval == InitEval /\ [][NextEval]_vars

----------------------------------------------------------------------------
(* Properties *)

\* the active tasks of a (service_name, job_id) key
ActiveFor(service_name, job) ==
    {t \in TaskIds : /\ tasks[t].service_name = service_name
                     /\ tasks[t].job_id = job
                     /\ tasks[t].status \in Active}

\* the jobs an instance holds for a task
JobsFor(i, t) == {j \in jobs[i] : j[2] = t}

\* C1: at any moment at most one task of a given (service_name, job_id) is
\* pending or running, also when two instances run start_monitoring for the
\* same key at the same time.
C1_AtMostOneActive ==
    \A s, t \in TaskIds :
        (/\ tasks[s].service_name = tasks[t].service_name
         /\ tasks[s].job_id = tasks[t].job_id
         /\ tasks[s].status \in Active
         /\ tasks[t].status \in Active) => s = t

\* C2: start_monitoring for a key that has an active task returns the id of
\* an active task of that key, inserts no row, changes no field of any row,
\* installs no job and is over in that step.
C2_IdempotentStart ==
    [][\A i \in Instances : \A req \in Requests :
          (/\ StartMonitoring(i, req)
           /\ ActiveFor(req.service_name, req.job_id) # {})
          => /\ tasks' = tasks
             /\ jobs' = jobs
             /\ proc'[i] = Idle
             /\ reply'.op = "start_monitoring"
             /\ reply'.task_id \in ActiveFor(req.service_name, req.job_id)]_vars

\* a call on one instance has returned the active task another instance owns
C2_Witness ==
    /\ reply.op = "start_monitoring"
    /\ tasks[reply.task_id].status \in Active
    /\ tasks[reply.task_id].assigned_instance # reply.instance
    /\ proc[reply.instance] = Idle
    /\ Len(tasks) = 1

\* C3: no step (check cycle, error path, sweep, startup scan, stop, start)
\* changes the status of a task that is completed, failed, timeout or stopped.
C3_TerminalFinal ==
    [][\A t \in TaskIds :
          tasks[t].status \in Terminal => tasks'[t].status = tasks[t].status]_vars

\* a startup scan that had loaded the task as running has committed its
\* changes after the owner's check cycle completed the task
C3_Witness ==
    /\ build = "monitor_service"
    /\ \E t \in TaskIds :
          /\ tasks[t].status = "completed"
          /\ tasks[t].retry_count = 0
          /\ reclaims[t] > 0

\* the tasks a sweep of instance i at the current time finds orphaned: running,
\* heartbeat older than the heartbeat timeout, owned by another instance
Orphaned(t, i) ==
    /\ tasks[t].status = "running"
    /\ tasks[t].last_heartbeat < now - heartbeat_timeout
    /\ tasks[t].assigned_instance \notin {NULL, i}
    /\ tasks[t].timeout_at > now

\* C4: a sweep takes every task it finds orphaned (owner and retry_count + 1)
\* and installs one timer for it on the sweeping instance, and touches no
\* other task; a second instance sweeping afterwards, for which the task is
\* no longer orphaned, changes nothing and installs no timer.
C4_OneOwner ==
    [][\A i \in Instances :
          RecoverOrphanedTasks(i) =>
             \A t \in TaskIds :
                IF Orphaned(t, i)
                THEN /\ tasks'[t].assigned_instance = i
                     /\ tasks'[t].retry_count = tasks[t].retry_count + 1
                     /\ tasks'[t].status = "running"
                           => \E j \in jobs'[i] : j[2] = t
                ELSE /\ tasks'[t] = tasks[t]
                     /\ {j \in jobs'[i] : j[2] = t} = JobsFor(i, t)]_vars

\* C5: a task that was orphaned and taken over max_retries + 1 times is
\* failed with the result that says so.
C5_RetryBound ==
    \A t \in TaskIds :
        reclaims[t] >= tasks[t].max_retries + 1
           => /\ tasks[t].status = "failed"
              /\ tasks[t].result = MaxRetriesExceeded

\* C6: once the recovery sweep of a live instance has run, no task of
\* another owner whose deadline has passed is still pending or running: the
\* sweep has moved it to timeout.
C6_DeadlinePriority ==
    reply.op = "recover_orphaned_tasks"
       => \A t \in TaskIds :
             (/\ tasks[t].timeout_at <= now
              /\ tasks[t].assigned_instance # reply.instance)
             => tasks[t].status \notin Active

Matches(task, conditions) ==
    check_conditions(MonitorOf(build, task.service_name), task.result,
                     conditions)

\* C8: a task whose probe result matches its success and its failure
\* conditions is completed, never failed.
C8_SuccessWins ==
    \A t \in TaskIds :
        (/\ Matches(tasks[t], tasks[t].success_conditions)
         /\ Matches(tasks[t], tasks[t].failure_conditions))
        => tasks[t].status = "completed"

C8_Witness ==
    \E t \in TaskIds :
        /\ tasks[t].status = "completed"
        /\ Matches(tasks[t], tasks[t].success_conditions)
        /\ Matches(tasks[t], tasks[t].failure_conditions)

\* C9: a running task has an owner.
C9_RunningHasOwner ==
    \A t \in TaskIds :
        tasks[t].status = "running" => tasks[t].assigned_instance # NULL

\* a running task that a recovery has handed to another instance
C9_Witness ==
    \E t \in TaskIds :
        /\ tasks[t].status = "running"
        /\ tasks[t].assigned_instance \in Instances
        /\ reclaims[t] > 0

\* C10: a pending or running task has retry_count <= max_retries.
C10_RetryCountBounded ==
    \A t \in TaskIds :
        tasks[t].status \in Active
           => tasks[t].retry_count <= tasks[t].max_retries

\* a running task whose retries are all used
C10_Witness ==
    \E t \in TaskIds :
        /\ tasks[t].status = "running"
        /\ tasks[t].retry_count = tasks[t].max_retries

\* C11: completed_at is NULL while a task is pending or running, is written
\* in the step that moves the status into a terminal state, and is written
\* by no other step.
C11_CompletedAtOnce ==
    [][\A t \in DOMAIN tasks' :
          /\ tasks'[t].status \in Active => tasks'[t].completed_at = NULL
          /\ tasks'[t].status \in Terminal => tasks'[t].completed_at # NULL
          /\ (t \in TaskIds
                 /\ tasks'[t].completed_at # tasks[t].completed_at)
             => /\ tasks[t].status \in Active
                /\ tasks[t].completed_at = NULL
                /\ tasks'[t].status \in Terminal]_vars

\* time has passed and operations have run since a task was completed
C11_Witness ==
    \E t \in TaskIds :
        /\ tasks[t].status \in Terminal
        /\ tasks[t].completed_at # NULL
        /\ tasks[t].completed_at < now
        /\ \E i \in Instances : inst[i] = "up" /\ JobsFor(i, t) # {}

\* a step of a check cycle of instance i
CheckCycleStep(i) ==
    \/ \E j \in jobs[i] : ExecuteCheck(i, j)
    \/ \E o \in HttpOutcomes \cup DbOutcomes : ExecuteCheckFinish(i, o)
    \/ \E o \in HttpOutcomes \cup DbOutcomes : CheckServiceStatusFinish(i, o)

\* a step of any operation of instance i
InstanceStep(i) ==
    \/ CheckCycleStep(i)
    \/ StartService(i)
    \/ RecoverMonitoringTasks(i)
    \/ \E req \in Requests : StartMonitoring(i, req)
    \/ StartMonitoringCreate(i)
    \/ StartMonitoringSchedule(i)
    \/ RecoverOrphanedTasks(i)
    \/ \E t \in TaskRefs : StopMonitoring(i, t)
    \/ \E t \in TaskRefs : StopRoute(i, t)
    \/ StopService(i)

\* C12: a step of instance i that changes a task's last_heartbeat leaves the
\* task assigned to i, and a check cycle changes the heartbeat only of a task
\* that was assigned to its instance before the step.
C12_HeartbeatByOwner ==
    [][\A i \in Instances : \A t \in TaskIds :
          (tasks'[t].last_heartbeat # tasks[t].last_heartbeat)
          => /\ InstanceStep(i) => tasks'[t].assigned_instance = i
             /\ CheckCycleStep(i) => tasks[t].assigned_instance = i]_vars

\* the owner's check cycle has advanced the heartbeat of a task no recovery
\* has touched
C12_Witness ==
    \E t \in TaskIds :
        /\ tasks[t].status = "running"
        /\ reclaims[t] = 0
        /\ tasks[t].last_heartbeat > tasks[t].created_at

\* C13: a sweep of instance i that finds a running, unexpired task of another
\* owner with a heartbeat older than the heartbeat timeout and retries left
\* leaves it assigned to i, with retry_count one higher, the sweep time as
\* heartbeat, still running, and with a timer on i; a task whose heartbeat is
\* not older than the timeout is left as it was.
C13_OrphanReclaim ==
    [][\A i \in Instances :
          RecoverOrphanedTasks(i) =>
             \A t \in TaskIds :
                /\ (Orphaned(t, i)
                       /\ tasks[t].retry_count < tasks[t].max_retries)
                   => /\ tasks'[t].assigned_instance = i
                      /\ tasks'[t].retry_count = tasks[t].retry_count + 1
                      /\ tasks'[t].last_heartbeat = now
                      /\ tasks'[t].status = "running"
                      /\ \E j \in jobs'[i] : j[2] = t
                /\ now - tasks[t].last_heartbeat <= heartbeat_timeout
                   => tasks'[t] = tasks[t]]_vars

\* C14: a task's timeout_at is its creation time plus the task timeout and
\* never changes, and a task's status becomes timeout only in a step taken
\* at a time at or after its timeout_at.
C14_NoEarlyTimeout ==
    [][\A t \in DOMAIN tasks' :
          IF t \in TaskIds
          THEN /\ tasks'[t].timeout_at = tasks[t].timeout_at
               /\ (tasks'[t].status = "timeout" /\ tasks[t].status # "timeout")
                  => now >= tasks[t].timeout_at
          ELSE /\ tasks'[t].created_at = now
               /\ tasks'[t].timeout_at = now + task_timeout
               /\ tasks'[t].status # "timeout"]_vars

\* a task has timed out
C14_Witness ==
    \E t \in TaskIds :
        /\ tasks[t].status = "timeout"
        /\ tasks[t].completed_at >= tasks[t].timeout_at
        /\ tasks[t].timeout_at = tasks[t].created_at + task_timeout

\* C15: the stop route called with the id of a running task answers ok and
\* leaves the task stopped, with completed_at set and no job for it on any
\* instance; called with an id that names no task it answers not-found and
\* changes no task.
C15_StopMonitoring ==
    [][\A i \in Instances : \A t \in TaskRefs :
          StopRoute(i, t) =>
             IF t \in TaskIds
             THEN tasks[t].status = "running"
                     => /\ reply'.op = "stop_route" => reply'.code = 200
                        /\ tasks'[t].status = "stopped"
                        /\ tasks'[t].completed_at # NULL
                        /\ \A k \in Instances : \A j \in jobs'[k] : j[2] # t
             ELSE /\ reply'.op = "stop_route" => reply'.code = 404
                  /\ tasks' = tasks]_vars

\* the end of a check cycle of instance i that met outcome o
CheckCycleEnds(i, o) ==
    ExecuteCheckFinish(i, o) \/ CheckServiceStatusFinish(i, o)

ProbeFailures == {[kind |-> "timeout"], [kind |-> "exception"]}

\* C17: a check cycle whose probe fails leaves its task running and the
\* task's timer installed on the instance.
C17_ProbeErrorBenign ==
    [][\A i \in Instances : \A o \in ProbeFailures :
          (proc[i].pc = "check" /\ CheckCycleEnds(i, o))
          => LET t == proc[i].task IN
             /\ tasks'[t].status = "running"
             /\ {j \in jobs'[i] : j[2] = t} # {}]_vars

\* C18: a timer tick on instance i for a task that is not assigned to i or
\* is not running starts no probe and changes no field of any task.
C18_LeaseConflictSkips ==
    [][\A i \in Instances : \A j \in jobs[i] :
          (/\ ExecuteCheck(i, j)
           /\ j[2] \in TaskIds
           /\ \/ tasks[j[2]].assigned_instance # i
              \/ tasks[j[2]].status # "running")
          => /\ tasks' = tasks
             /\ proc'[i] = Idle
             /\ jobs' = jobs]_vars

\* a tick has been skipped for a running task that another instance owns
C18_Witness ==
    /\ reply.op = "execute_check"
    /\ ~reply.found
    /\ tasks[reply.task_id].status = "running"
    /\ tasks[reply.task_id].assigned_instance # reply.instance
    /\ proc[reply.instance] = Idle

\* C19: once a task has entered a terminal status, no instance holds a
\* scheduled timer for that task.
C19_TerminalHasNoTimer ==
    \A t \in TaskIds :
        tasks[t].status \in Terminal
        => \A i \in Instances : JobsFor(i, t) = {}

\* C20: the shutdown of an instance stops its scheduler and changes no
\* task: no row is deleted and no column of any row is modified.
C20_ShutdownKeepsTasks ==
    [][\A i \in Instances :
          StopService(i)
          => /\ tasks' = tasks
             /\ jobs'[i] = {}
             /\ inst'[i] = "down"]_vars

\* an instance has shut down while it owned a running task with a timer
C20_Witness ==
    /\ reply.op = "stop_service"
    /\ inst[reply.instance] = "down"
    /\ jobs[reply.instance] = {}
    /\ \E t \in TaskIds :
          /\ tasks[t].status = "running"
          /\ tasks[t].assigned_instance = reply.instance
          /\ tasks[t].last_heartbeat > tasks[t].created_at

CompletedByMatch ==
    {t \in TaskIds : /\ tasks[t].status \in {"completed", "failed"}
                     /\ ~Has(tasks[t].result, "error")}

\* C22: a task that a check cycle completed on a condition match has had a
\* notification of that completion handed to the notification sink.
C22_CompletionNotified ==
    \A t \in CompletedByMatch :
        \E k \in DOMAIN sent :
            /\ sent[k].type = "monitor_task"
            /\ sent[k].task_id = t
            /\ sent[k].status = tasks[t].status

\* the payload the field paths of a condition spec are looked up in: the
\* parsed JSON body, or the first data row; Missing when there is none
FieldRoot(monitor, response_data) ==
    IF monitor = "DatabaseMonitor"
    THEN IF Has(response_data, "data") /\ response_data.data # <<>>
         THEN response_data.data[1] ELSE Missing
    ELSE IF Has(response_data, "json") THEN response_data.json ELSE Missing

\* the field equalities of a condition spec
FieldsOf(monitor, conditions) ==
    LET key == IF monitor = "DatabaseMonitor" THEN "data_fields"
               ELSE "json_fields"
    IN  IF Has(conditions, key) THEN conditions[key] ELSE <<>>

\* some field path of the condition spec cannot be resolved in the result
SomePathUnresolved(monitor, response_data, conditions) ==
    \E p \in DOMAIN FieldsOf(monitor, conditions) :
        Traverse(FieldRoot(monitor, response_data), p) = Missing

\* C23: for a condition spec with a dotted-path field equality, the
\* evaluator returns no-match whenever the path cannot be resolved in the
\* probe result, also when the result has no parsed JSON payload (HTTP) or
\* no data rows (database).
C23_FieldPathsFailClosed ==
    (/\ reply.op = "check_conditions"
     /\ SomePathUnresolved(reply.monitor, reply.response_data,
                           reply.conditions_json))
    => ~reply.result

\* a conditions column that is NULL (no conditions, or an empty dict, in
\* the request) or holds a text that does not parse
NoConditions == {NoneCond, Unparsable}

\* C24: a null, absent or unparsable condition spec never matches: the
\* evaluator returns false on every probe result, so a cycle completes no
\* task that has no success conditions, fails none that has no failure
\* conditions on a match, and continues when the task has neither.
C24_NoConditionsNeverMatch ==
    /\ (reply.op = "check_conditions" /\ reply.conditions_json \in NoConditions)
          => ~reply.result
    /\ reply.op = "check_decision"
          => /\ reply.task.success_conditions \in NoConditions
                   => reply.decision # "completed"
             /\ reply.task.failure_conditions \in NoConditions
                   => reply.decision # "failed"
             /\ (/\ reply.task.success_conditions \in NoConditions
                 /\ reply.task.failure_conditions \in NoConditions)
                   => reply.decision = "continue"

\* a cycle has continued on a 200 answer for a task whose success conditions
\* do not parse and whose failure conditions are NULL
C24_Witness ==
    /\ reply.op = "check_decision"
    /\ reply.monitor = "HttpMonitor"
    /\ reply.response_data = HttpResponse(200)
    /\ reply.task.success_conditions = Unparsable
    /\ reply.task.failure_conditions = NoneCond
    /\ reply.decision = "continue"

\* the probe the selection policy names for a lower-case service name
PolicyProbe(folded) ==
    CASE folded \in {"http", "https"} -> "HttpMonitor"
      [] folded \in {"database", "mysql", "postgresql"} -> "DatabaseMonitor"
      [] OTHER -> "HttpMonitor"

\* C25: the selected probe is the HTTP probe for http and https, the
\* database probe for database, mysql and postgresql, and the HTTP probe for
\* every other name, whatever the letter case of the name.
C25_ProbeSelection ==
    reply.op = "get_monitor"
    => \A n \in ServiceNames :
          n.name = reply.service_name
          => reply.monitor = PolicyProbe(n.folded)

\* the database probe has been selected for a name in mixed case
C25_Witness ==
    /\ reply.op = "get_monitor"
    /\ reply.service_name = "PostgreSQL"
    /\ reply.monitor = "DatabaseMonitor"

\* every task of the walk's user that matches its status filter, in
\* descending id order
AllListed == Descending(UserTasks(walk.user, walk.status))

IsPrefix(a, b) == Len(a) <= Len(b) /\ a = SubSeq(b, 1, Len(a))

\* what the claim says of a walk along the cursors, at its last response
CursorWalkIsExact ==
    /\ Len(reply.items) <= walk.limit
    /\ IsPrefix(walk.items, AllListed)
    /\ reply.has_more <=> Len(walk.items) < Len(AllListed)
    /\ reply.has_more => reply.next_cursor # NULL
    /\ walk.pc = "done" <=> walk.items = AllListed
    /\ UserTasks(walk.user, NoStatus) = {}
          => /\ reply.items = <<>>
             /\ ~reply.has_more
             /\ reply.next_cursor = NULL

\* C26 as stated: starting with no cursor and passing on the returned
\* next_cursor while has_more is true, the pages list every matching task of
\* the user exactly once in descending id order, each page has at most limit
\* items, has_more is true exactly when tasks remain after the page, and a
\* user with no tasks gets an empty page, has_more false and no cursor.
C26_CursorPagination ==
    walk # NoWalk => CursorWalkIsExact

\* C26 as amended: the same for every limit >= 1.
C26_CursorPaginationFromOne ==
    (walk # NoWalk /\ walk.limit >= 1) => CursorWalkIsExact

\* a walk of two pages of one item has ended, over a table that also holds
\* a row the walk must not list
C26_Witness ==
    /\ walk # NoWalk
    /\ walk.pc = "done"
    /\ walk.limit = 1
    /\ walk.status = "completed"
    /\ Len(walk.items) = 2
    /\ Cardinality(ScanIds) = 3

Min2(a, b) == IF a <= b THEN a ELSE b
Max2(a, b) == IF a >= b THEN a ELSE b

\* C27: for T matching tasks, limit L >= 1 and offset O >= 0 the response
\* of the offset listing has min(L, max(0, T - O)) items, total = T,
\* page = O div L + 1, total_pages = ceil(T / L), has_next exactly when
\* O + L < T and has_prev exactly when O > 0.
C27_OffsetPagination ==
    (reply.op = "get_user_tasks" /\ Has(reply, "items"))
    => LET T == Cardinality(UserTasks(reply.user, reply.status))
           L == reply.per_page
           O == reply.offset
       IN  /\ Len(reply.items) = Min2(L, Max2(0, T - O))
           /\ reply.total = T
           /\ (reply.page - 1) * L <= O /\ O < reply.page * L
           /\ reply.total_pages * L >= T /\ (reply.total_pages - 1) * L < T
           /\ reply.has_next <=> O + L < T
           /\ reply.has_prev <=> O > 0

\* the last page of three tasks listed by two has been returned
C27_Witness ==
    /\ reply.op = "get_user_tasks"
    /\ Has(reply, "items")
    /\ reply.total = 3
    /\ reply.per_page = 2
    /\ reply.offset = 2
    /\ Len(reply.items) = 1
    /\ reply.page = 2
    /\ reply.total_pages = 2
    /\ ~reply.has_next
    /\ reply.has_prev

C29_DeadlineTestFirst ==
    [][\A i \in Instances : \A j \in jobs[i] :
          (/\ ExecuteCheck(i, j)
           /\ j[2] \in TaskIds
           /\ tasks[j[2]].assigned_instance = i
           /\ tasks[j[2]].status = "running"
           /\ tasks[j[2]].timeout_at <= now)
          => /\ tasks'[j[2]].status = "timeout"
             /\ tasks'[j[2]].completed_at = now
             /\ tasks'[j[2]].result = GloballyTimedOut
             /\ tasks'[j[2]].last_heartbeat = tasks[j[2]].last_heartbeat
             /\ j \notin jobs'[i]
             /\ proc'[i] = Idle]_vars

\* a live owner has timed its task out at the deadline, with the heartbeat
\* of an earlier cycle
C29_Witness ==
    \E t \in TaskIds :
        /\ tasks[t].status = "timeout"
        /\ tasks[t].completed_at = tasks[t].timeout_at
        /\ tasks[t].last_heartbeat < tasks[t].completed_at
        /\ tasks[t].last_heartbeat > tasks[t].created_at
        /\ tasks[t].assigned_instance \in Instances
        /\ inst[tasks[t].assigned_instance] = "up"
        /\ JobsFor(tasks[t].assigned_instance, t) = {}

\* C30: the startup scan of an instance sets status timeout and
\* completed_at on every pending or running task that is unassigned and
\* pending, or assigned to the starting instance, and whose timeout_at is
\* not after the scan's current time.
C30_StartupScanTimesOut ==
    [][\A i \in Instances :
          RecoverMonitoringTasks(i)
          => \A t \in TaskIds :
                (/\ tasks[t].status \in {"pending", "running"}
                 /\ \/ tasks[t].status = "pending"
                       /\ tasks[t].assigned_instance = NULL
                    \/ tasks[t].assigned_instance = i
                 /\ tasks[t].timeout_at <= proc[i].current_time)
                => /\ tasks'[t].status = "timeout"
                   /\ tasks'[t].completed_at # NULL]_vars

\* C31: the startup scan of an instance claims every pending task with no
\* owner and every pending or running task assigned to the starting
\* instance whose timeout_at is after the scan's time: after the scan the
\* task is running, assigned to the starting instance, has the scan's time
\* as last_heartbeat, and the starting instance holds a timer for it.
C31_StartupScanClaims ==
    [][\A i \in Instances :
          RecoverMonitoringTasks(i)
          => \A t \in TaskIds :
                (/\ tasks[t].status \in {"pending", "running"}
                 /\ \/ tasks[t].status = "pending"
                       /\ tasks[t].assigned_instance = NULL
                    \/ tasks[t].assigned_instance = i
                 /\ tasks[t].timeout_at > proc[i].current_time)
                => /\ tasks'[t].status = "running"
                   /\ tasks'[t].assigned_instance = i
                   /\ tasks'[t].last_heartbeat = proc[i].current_time
                   /\ \E j \in jobs'[i] : j[2] = t]_vars

\* C32: a running task whose assigned_instance is a started instance that
\* has neither crashed nor shut down has a timer on that instance.
C32_RunningOwnedHasTimer ==
    \A t \in TaskIds :
        (/\ tasks[t].status = "running"
         /\ tasks[t].assigned_instance \in Instances
         /\ inst[tasks[t].assigned_instance] = "up")
        => JobsFor(tasks[t].assigned_instance, t) # {}

\* C33: each instance holds at most one timer per task, whatever starts,
\* sweep claims and startup scans have scheduled a job for the task there.
C33_OneTimerPerTask ==
    \A i \in Instances : \A t \in TaskIds : Cardinality(JobsFor(i, t)) <= 1

\* both instances have stayed up, the task has changed hands twice and is
\* back with the instance that created it, which never lost its timer: the
\* second claim rescheduled a job that was installed
C33_Witness ==
    /\ build = "scheduler_service"
    /\ \A i \in 1..2 : inst[i] = "up"
    /\ \E t \in TaskIds :
          /\ tasks[t].status = "running"
          /\ tasks[t].retry_count = 2
          /\ Cardinality(JobsFor(tasks[t].assigned_instance, t)) = 1

\* C34: the startup scan's read of a task is row-locked against the
\* writers of other instances: when another instance has committed a
\* status, owner or heartbeat of a task after the scan read it, the scan's
\* commit leaves those columns as committed and installs no timer for the
\* task, so the two never both take the task.
C34_ScanReadIsLocked ==
    [][\A i \in Instances :
          RecoverMonitoringTasks(i)
          => \A t \in DOMAIN proc[i].loaded :
                (\/ tasks[t].status # proc[i].loaded[t].status
                 \/ tasks[t].assigned_instance
                       # proc[i].loaded[t].assigned_instance
                 \/ tasks[t].last_heartbeat # proc[i].loaded[t].last_heartbeat)
                => /\ tasks'[t].status = tasks[t].status
                   /\ tasks'[t].assigned_instance = tasks[t].assigned_instance
                   /\ tasks'[t].last_heartbeat = tasks[t].last_heartbeat
                   /\ {j \in jobs'[i] : j[2] = t} = JobsFor(i, t)]_vars

\* C35: a step that changes the assigned_instance of a running task from
\* one instance to another adds exactly 1 to the task's retry_count.
C35_TransferCountsRetry ==
    [][\A t \in TaskIds :
          (/\ tasks[t].status = "running"
           /\ tasks[t].assigned_instance \in Instances
           /\ tasks'[t].assigned_instance \in Instances
           /\ tasks'[t].assigned_instance # tasks[t].assigned_instance)
          => tasks'[t].retry_count = tasks[t].retry_count + 1]_vars

\* C36: a sweep does not take a running task from an owner that is up and
\* holds the task's timer, and does not fail it for exhausted retries, in
\* runs where every timer fires on time, whatever the task's check_interval.
C36_NoFalseOrphaning ==
    [][\A i \in Instances :
          RecoverOrphanedTasks(i)
          => \A t \in TaskIds :
                (/\ tasks[t].status = "running"
                 /\ tasks[t].assigned_instance \in Instances
                 /\ inst[tasks[t].assigned_instance] = "up"
                 /\ JobsFor(tasks[t].assigned_instance, t) # {})
                => /\ tasks'[t].assigned_instance = tasks[t].assigned_instance
                   /\ tasks'[t].status = "running"
                   /\ tasks'[t].retry_count = tasks[t].retry_count]_vars

\* the response data the conditions of a cycle are checked against
ResponseData(m, o) ==
    IF build = "monitor_service" THEN check_service_status(m, o) ELSE o.data

\* the end of a check cycle of instance i whose call had outcome o
CycleEnds(i, o) ==
    /\ proc[i].pc = "check"
    /\ ExecuteCheckFinish(i, o) \/ CheckServiceStatusFinish(i, o)
    /\ ~Raises(build, o)

\* C37: a check cycle whose probe result matches neither the success nor
\* the failure conditions of its task sets the task's last_heartbeat to the
\* cycle's time and changes no other field of it, no other task and no timer.
C37_HeartbeatRefreshOnly ==
    [][\A i \in Instances : \A o \in HttpOutcomes \cup DbOutcomes :
          (/\ CycleEnds(i, o)
           /\ ~check_conditions(proc[i].monitor,
                                ResponseData(proc[i].monitor, o),
                                tasks[proc[i].task].success_conditions)
           /\ ~check_conditions(proc[i].monitor,
                                ResponseData(proc[i].monitor, o),
                                tasks[proc[i].task].failure_conditions))
          => /\ tasks' = [tasks EXCEPT ![proc[i].task].last_heartbeat =
                                           proc[i].current_time]
             /\ jobs' = jobs]_vars

\* a task that only check cycles have touched is running with a heartbeat
\* later than its creation
C37_Witness ==
    \E t \in TaskIds :
        /\ tasks[t].status = "running"
        /\ reclaims[t] = 0
        /\ tasks[t].last_heartbeat = now
        /\ tasks[t].last_heartbeat > tasks[t].created_at
        /\ JobsFor(tasks[t].assigned_instance, t) # {}

\* the task of the cycle of instance i has ended in this step with the
\* given status, the response data as result and its timer removed
EndsWith(i, status, response_data) ==
    /\ tasks'[proc[i].task].status = status
    /\ tasks'[proc[i].task].result = response_data
    /\ tasks'[proc[i].task].completed_at = now
    /\ \A j \in jobs'[i] : j[2] # proc[i].task

\* C38: a check cycle whose probe result matches the success conditions of
\* its task completes the task, and one whose result matches the failure
\* conditions and not the success conditions fails it, in that cycle, with
\* the probe result as result, completed_at set and the timer removed.
C38_MatchEndsTask ==
    [][\A i \in Instances : \A o \in HttpOutcomes \cup DbOutcomes :
          CycleEnds(i, o)
          => LET m == proc[i].monitor
                 t == proc[i].task
                 response_data == ResponseData(m, o)
                 success == check_conditions(m, response_data,
                                             tasks[t].success_conditions)
                 failure == check_conditions(m, response_data,
                                             tasks[t].failure_conditions)
             IN  /\ success => EndsWith(i, "completed", response_data)
                 /\ (failure /\ ~success)
                       => EndsWith(i, "failed", response_data)]_vars

\* one task has been completed on a 200 and another failed on a 500
C38_Witness ==
    /\ \E t \in TaskIds :
          /\ tasks[t].status = "completed"
          /\ tasks[t].result = HttpResponse(200)
          /\ tasks[t].completed_at # NULL
          /\ \A i \in Instances : JobsFor(i, t) = {}
    /\ \E t \in TaskIds :
          /\ tasks[t].status = "failed"
          /\ tasks[t].result = HttpResponse(500)
          /\ tasks[t].completed_at # NULL
          /\ \A i \in Instances : JobsFor(i, t) = {}

\* the two maps of the manager agree and no user has an empty entry
MapsConsistent ==
    /\ \A c \in 1..MaxConnections : \A u \in Users :
          (c \in DOMAIN manager.connection_user_map
              /\ manager.connection_user_map[c] = u)
          <=> (u \in DOMAIN manager.active_connections
                  /\ c \in manager.active_connections[u])
    /\ DOMAIN manager.active_connections \subseteq Users
    /\ \A u \in DOMAIN manager.active_connections :
          /\ manager.active_connections[u] # {}
          /\ manager.active_connections[u] \subseteq 1..MaxConnections

\* C39: after every connect, disconnect and send_personal_message the two
\* maps of the manager agree, no user key maps to an empty set, the
\* total_connections GET /ws/connections reports is the number of entries of
\* connection_user_map, and a disconnect of an id the manager does not know
\* changes nothing.
C39_ManagerMapsConsistent ==
    /\ [](/\ MapsConsistent
          /\ reply.op = "get_active_connections"
                => reply.total_connections
                      = Cardinality(DOMAIN manager.connection_user_map))
    /\ [][(/\ reply'.op = "disconnect"
           /\ reply'.connection_id \notin DOMAIN manager.connection_user_map)
          => manager' = manager]_vars

\* a send has failed on a connection and its cleanup has disconnected it
\* while the endpoint call of that connection is still in its loop; another
\* connection is registered, and a third endpoint call has ended
C39_Witness ==
    /\ reply.op = "send_personal_message" /\ ~reply.raised
    /\ \E c \in ConnectionIds :
          /\ sockets[c].pc = "connected"
          /\ c \notin DOMAIN manager.connection_user_map
    /\ \E c \in ConnectionIds :
          /\ sockets[c].pc = "connected"
          /\ c \in DOMAIN manager.connection_user_map
    /\ \E c \in ConnectionIds :
          sockets[c].pc = "closed"

====
